---- MODULE Spec2Model ----
\* A model of the ACE memory substrate: the hybrid memory facade
\* (src/src/ace_rm/memory/core.py), the task queue
\* (src/src/ace_rm/memory/queue.py) and the reflection worker
\* (src/src/ace_rm/workers/background.py), as threads that step through
\* the statements of each method over one shared set of files.
EXTENDS Integers, Sequences, FiniteSets, TLC

\* ------------------------------------------------------------------ bounds
MaxOps == 2        \* mutating facade calls issued directly by a client
MaxTasks == 2      \* tasks ever enqueued
MaxDocs == 2       \* rows ever inserted into documents
MaxK == 2          \* largest k passed to search
MaxMsgs == 2       \* messages passed to one run of the agent graph
MaxCalls == 3      \* calls of get_session_agent made in all
MaxItems == 2      \* items held by the model passed to apply_diff
MaxDiff == 2       \* ops in the list passed to apply_diff

\* ------------------------------------------------------- program constants
DISTANCE_THRESHOLD == 18   \* config.py: 1.8 (L2), in tenths
SimilarThreshold == 4      \* background.py: threshold=0.4, in tenths
SimilarTopK == 3           \* core.py: index.search(vector, 3)
SearchFactor == 3          \* core.py: search_k = min(k * 3, ntotal)
FwSimilarThreshold == 5    \* ace_framework.py: threshold=0.5, in tenths
DefaultK == 3              \* core.py: search(query, k=3)

\* ------------------------------------------------------- threads, facades
Workers == {"w1", "w2"}
\* A worker of ace_framework.py (BackgroundWorker with its own process_task).
FwWorkers == {"w3"}
AllWorkers == Workers \cup FwWorkers
Clients == {"c1", "c2"}
Threads == AllWorkers \cup Clients
Facades == {"f1", "f2"}

\* app.py (shared mode): the worker thread w1 and the request thread c1 are
\* given the same ACE_Memory object f1; a second process (its worker w2 and
\* its request thread c2) holds its own facade f2 over the same files.
Fac(t) == IF t \in {"w2", "c2"} THEN "f2" ELSE "f1"

Contents == {"a", "b"}
Queries == {"a", "b", "sa", "kb"}

\* A query that FTS5 cannot parse (an unbalanced quote): "qa" is the text of
\* "a" followed by a double quote.
MalformedQueries == {"qa"}
Malformed(q) == q \in MalformedQueries

\* A query that is near one document in vector space and shares its only
\* keyword with another: "ab" is a paraphrase of "a" that names "b".
MixedQueries == {"ab"}

\* The encoder and the flat L2 index, abstracted: the distance (in tenths)
\* between the encoding of query q and the stored vector of content c.
\* "sa" is a paraphrase of "a": near in vector space, no shared token.
Dist(q, c) ==
    IF q = c THEN 0 ELSE IF q \in {"sa", "qa", "ab"} /\ c = "a" THEN 10 ELSE 25

DistValues == <<0, 10, 25>>

\* FTS5 MATCH, abstracted: "kb" is a keyword of "b" whose embedding is far.
Match(q, c) == q = c \/ (q \in {"kb", "ab"} /\ c = "b")

\* ----------------------------------------------------------------- helpers
Min(a, b) == IF a < b THEN a ELSE b

Range(s) == {s[i] : i \in 1..Len(s)}

Take(s, n) == SubSeq(s, 1, Min(n, Len(s)))

RECURSIVE Flatten(_)
Flatten(ss) == IF ss = <<>> THEN <<>> ELSE Head(ss) \o Flatten(Tail(ss))

\* A collection of results that keeps every repetition.
KeepAll(s) == s

\* Drop later repetitions of an element, keeping first occurrences in order
\* (a Python dict keyed by content keeps insertion order).
RECURSIVE Dedup(_)
Dedup(s) ==
    IF s = <<>> THEN <<>>
    ELSE LET r == Dedup(SubSeq(s, 1, Len(s) - 1))
             x == s[Len(s)]
         IN IF x \in Range(r) THEN r ELSE Append(r, x)

\* A vector is kept as <<id, content>>: the encoding of content under id.
VecIds(idx) == {idx[i][1] : i \in 1..Len(idx)}

CountId(idx, id) == Cardinality({i \in 1..Len(idx) : idx[i][1] = id})

\* faiss remove_ids
RemoveIds(idx, id) == SelectSeq(idx, LAMBDA e : e[1] # id)

\* faiss add_with_ids
AddWithIds(idx, id, c) == Append(idx, <<id, c>>)

\* faiss index.search(q, n): the n nearest entries, nearest first.
Nearest(idx, q, n) ==
    LET bucket(d) == SelectSeq(idx, LAMBDA e : Dist(q, e[2]) = d)
    IN Take(Flatten([j \in 1..Len(DistValues) |-> bucket(DistValues[j])]), n)

\* ---------------------------------------------------------- search (pure)
\* core.py search, lines 230-252: the vector phase on index idx.
FoundIds(idx, q, k, thr) ==
    LET hits == Nearest(idx, q, Min(k * SearchFactor, Len(idx)))
        kept == SelectSeq(hits, LAMBDA e : Dist(q, e[2]) < thr)
    IN Take([i \in 1..Len(kept) |-> kept[i][1]], k)

\* SELECT content FROM documents WHERE id IN (found): rows in rowid order,
\* collected into a dict keyed by content.
VectorPhase(idx, rows, q, k, thr) ==
    IF Len(idx) > 0
    THEN LET found == Range(FoundIds(idx, q, k, thr))
             hit == SelectSeq([i \in 1..Len(rows) |-> <<i, rows[i]>>],
                              LAMBDA r : r[1] \in found)
         IN Dedup([i \in 1..Len(hit) |-> hit[i][2]])
    ELSE <<>>

\* core.py search, lines 254-264: documents_fts MATCH query LIMIT n.
LexicalPhase(rows, q, n) == Take(SelectSeq(rows, LAMBDA c : Match(q, c)), n)

\* A search that runs the lexical query whatever the vector phase found and
\* puts no limit on it.
SearchResultUnbounded(idx, rows, q, k, thr, lex) ==
    LET v == VectorPhase(idx, rows, q, k, thr)
    IN IF lex THEN Dedup(v \o LexicalPhase(rows, q, Len(rows))) ELSE v

\* core.py search, lines 230-265. lex is FALSE when the FTS query raises
\* (swallowed by the try/except around it).
SearchResult(idx, rows, q, k, thr, lex) ==
    LET v == VectorPhase(idx, rows, q, k, thr)
    IN IF Len(v) < k /\ lex
       THEN Dedup(v \o LexicalPhase(rows, q, k - Len(v)))
       ELSE v

\* core.py find_similar_vectors, lines 173-185: ids of the (at most 3)
\* nearest vectors closer than thr.
SimilarIds(idx, q, thr) ==
    IF Len(idx) > 0
    THEN LET hits == Nearest(idx, q, SimilarTopK)
             kept == SelectSeq(hits, LAMBDA e : Dist(q, e[2]) < thr)
         IN [i \in 1..Len(kept) |-> kept[i][1]]
    ELSE <<>>

\* core.py _rebuild_vectors_from_db: one vector per document row.
RebuildVectors(rows) == [i \in 1..Len(rows) |-> <<i, rows[i]>>]

\* ------------------------------------------------------------------- state
VARIABLES
    docs,       \* documents table: row id i holds content docs[i]
    docsTable,  \* the documents table (and its FTS mirror) exists
    tasks,      \* task_queue table: row id i is tasks[i]
    taskTable,  \* the task_queue table exists
    idxExists,  \* the index file exists
    idxFile,    \* vectors persisted in the index file
    idxMtime,   \* modification time of the index file
    clock,      \* wall clock, advanced by every write of the index file
    lock,       \* advisory lock: holders of the lock file, and holders of
                \* a lock file that has since been unlinked
    index,      \* per facade: self.index
    lastMtime,  \* per facade: self.last_index_mtime
    pc,         \* per thread: the statement it is at
    loc,        \* per thread: arguments and locals of the call in progress
    res,        \* per thread: how its last call ended (returned or raised)
    wk,         \* per worker: task, oracle decision, contents, pending
                \* exception
    orphan,     \* history: ids whose add raised after the row was inserted
    nops,       \* history: mutating calls issued by clients, and faults of
                \* the index file and of the task database
    idxReadable,\* the index file can be read by faiss.read_index
    running,    \* per worker: self.running
    graph,      \* the agent graph: the node to run next and state['messages']
    sess,       \* app.py: agent_sessions and the calls of get_session_agent
    emb,        \* embedding_manager.py: _model, _lock and the calls of
                \* get_embedding_model
    stm         \* stm_manager.py: one call of apply_diff, its arguments and
                \* its result

dbVars == <<docs, docsTable, tasks, taskTable>>
fileVars == <<idxExists, idxFile, idxMtime, clock, idxReadable>>
appVars == <<sess, emb, stm>>
auxVars == <<running, graph, appVars>>
facVars == <<index, lastMtime>>
vars == <<docs, docsTable, tasks, taskTable, idxExists, idxFile, idxMtime,
          clock, lock, index, lastMtime, pc, loc, res, wk, orphan, nops, auxVars>>

NoLoc == [c |-> "-", id |-> 0, cur |-> 0, newer |-> FALSE, q |-> "-", k |-> 0,
         cs |-> <<>>]
NoRes == "none"
Returned == "ok"
Raised == "raised"
\* The agent graph between two runs.
NoGraph == [node |-> "END", messages |-> <<>>, queue |-> TRUE, enq |-> <<>>]
NoWk == [task |-> 0, dec |-> "-", raw |-> "-", sout |-> "-", c |-> "-",
         tid |-> 0, exc |-> "-", sim |-> <<>>]

\* Session ids of the isolated mode of app.py.
SessionIds == {"s1", "s2"}

\* app.py 20: agent_sessions is empty when the module has been imported.
\* map[s] is the entry stored under s (0: no key s; n: the n-th entry
\* constructed for s), built[s] counts the entries constructed for s, each
\* with a memory, a queue, an agent and a started worker; at, sid and mine
\* are the position, the argument and the entry constructed by the call of
\* get_session_agent in progress on a thread; rets[s] is the history of
\* the entries returned for s, and calls counts the calls made.
NoSess ==
    [map |-> [s \in SessionIds |-> 0], built |-> [s \in SessionIds |-> 0],
     at |-> [t \in Clients |-> "idle"], sid |-> [t \in Clients |-> "-"],
     mine |-> [t \in Clients |-> 0], rets |-> [s \in SessionIds |-> {}],
     calls |-> 0]

\* The threads of one process that construct a facade (core.py 35), and so
\* call get_embedding_model.
Callers == Clients \cup Workers

\* embedding_manager.py 12-13: _model is None (0) and _lock is free when
\* the module has been imported. model is the instance held by _model (n:
\* the n-th constructed), built counts the instances constructed, holder
\* is the thread inside "with _lock", at is the position of the call in
\* progress on a thread, and rets is the history of the values returned.
NoEmb ==
    [model |-> 0, built |-> 0, holder |-> "-",
     at |-> [t \in Callers |-> "idle"], rets |-> {}]

\* No call of apply_diff has been made.
NoStm == [called |-> FALSE]

\* State after ACE_Memory() and TaskQueue() have been constructed over an
\* empty store by every facade: empty tables, an empty index file on disk.
Init ==
    /\ docs = <<>> /\ docsTable = TRUE
    /\ tasks = <<>> /\ taskTable = TRUE
    /\ idxExists = TRUE /\ idxFile = <<>> /\ idxMtime = 1 /\ clock = 1
    /\ idxReadable = TRUE
    /\ lock = [held |-> {}, stale |-> {}]
    /\ index = [f \in Facades |-> <<>>]
    /\ lastMtime = [f \in Facades |-> 1]
    /\ pc = [t \in Threads |-> "idle"]
    /\ loc = [t \in Threads |-> NoLoc]
    /\ res = [t \in Threads |-> NoRes]
    /\ wk = [w \in AllWorkers |-> NoWk]
    /\ orphan = {}
    /\ nops = 0
    /\ running = [w \in AllWorkers |-> TRUE]
    /\ graph = NoGraph
    /\ sess = NoSess /\ emb = NoEmb /\ stm = NoStm

\* State after this program has stored at most one document in an earlier
\* run (add returned) and every facade has been constructed over the store.
InitStored ==
    /\ docs \in {<<>>} \cup {<<c>> : c \in Contents} /\ docsTable = TRUE
    /\ tasks = <<>> /\ taskTable = TRUE
    /\ idxExists = TRUE /\ idxFile = RebuildVectors(docs)
    /\ idxMtime = 1 /\ clock = 1
    /\ idxReadable = TRUE
    /\ lock = [held |-> {}, stale |-> {}]
    /\ index = [f \in Facades |-> RebuildVectors(docs)]
    /\ lastMtime = [f \in Facades |-> 1]
    /\ pc = [t \in Threads |-> "idle"]
    /\ loc = [t \in Threads |-> NoLoc]
    /\ res = [t \in Threads |-> NoRes]
    /\ wk = [w \in AllWorkers |-> NoWk]
    /\ orphan = {}
    /\ nops = 0
    /\ running = [w \in AllWorkers |-> TRUE]
    /\ graph = NoGraph
    /\ sess = NoSess /\ emb = NoEmb /\ stm = NoStm

\* A string is kept as the sequence of its symbols: a word of an op type is
\* one symbol, ":" the colon, " " a blank, "dq" and "sq" the two quotes,
\* "x" and "y" the letters of contents.
OpStrings ==
    { <<"ADD_CONSTRAINT", ":", " ", "x">>,
      <<"add_constraint", ":", "dq", "x", "dq">>,
      <<"ADD_CONSTRAINT", ":", "y">>,
      <<"MODIFY_ACTION", " ", ":", "sq", "x", "sq">>,
      <<"DROP_ENTITY", ":", " ", "x", " ">>,
      <<"DROP_ENTITY", " ", "x">>,
      <<"NOTE", ":", "x">> }

\* The items a model can hold.
Items == { <<"x">>, <<"y">> }

\* Sequences of at most n elements of set S.
SeqsUpTo(S, n) == UNION {[1..k -> S] : k \in 0..n}

\* The model dicts passed to apply_diff: every key missing, holding a list
\* or holding another object (entities a dict of distinct keys), with at
\* most MaxItems items in all.
Models ==
    LET lists == {[kind |-> "list", items |-> l] :
                     l \in SeqsUpTo(Items, MaxItems)}
        dicts == {[kind |-> "dict", items |-> l] :
                     l \in {d \in SeqsUpTo(Items, MaxItems) :
                               \A i, j \in 1..Len(d) : d[i] = d[j] => i = j}}
        odd == {[kind |-> "absent", items |-> <<>>],
                [kind |-> "other", items |-> <<>>]}
    IN {m \in [constraints : lists \cup odd, actions : lists \cup odd,
               entities : lists \cup dicts \cup odd] :
          Len(m.constraints.items) + Len(m.actions.items)
             + Len(m.entities.items) <= MaxItems}

\* State before a call of apply_diff on any model and any list of at most
\* MaxDiff ops; the store is as in Init.
InitDiff ==
    /\ docs = <<>> /\ docsTable = TRUE
    /\ tasks = <<>> /\ taskTable = TRUE
    /\ idxExists = TRUE /\ idxFile = <<>> /\ idxMtime = 1 /\ clock = 1
    /\ idxReadable = TRUE
    /\ lock = [held |-> {}, stale |-> {}]
    /\ index = [f \in Facades |-> <<>>]
    /\ lastMtime = [f \in Facades |-> 1]
    /\ pc = [t \in Threads |-> "idle"]
    /\ loc = [t \in Threads |-> NoLoc]
    /\ res = [t \in Threads |-> NoRes]
    /\ wk = [w \in AllWorkers |-> NoWk]
    /\ orphan = {}
    /\ nops = 0
    /\ running = [w \in AllWorkers |-> TRUE]
    /\ graph = NoGraph
    /\ sess = NoSess /\ emb = NoEmb
    /\ stm \in {[called |-> FALSE, model |-> m, ops |-> o] :
                    m \in Models, o \in SeqsUpTo(OpStrings, MaxDiff)}

\* --------------------------------------------------------- the file lock
\* FileLock(index_lock_path): flock on the lock file found at that path.
LockFree == lock.held = {}
Acquired(t) == [lock EXCEPT !.held = @ \cup {t}]
Released(t) == [held |-> lock.held \ {t}, stale |-> lock.stale \ {t}]
HoldsLock(t) == t \in lock.held \cup lock.stale

\* -------------------------------------------------- returning to a caller
\* Where thread t continues when memory operation op returns (ok) or raises:
\* a client is back at its prompt; in process_task of background.py
\* find_similar_vectors is called outside the try block (an exception
\* escapes to the run loop), add and update_document inside it; in
\* process_task of ace_framework.py all three are inside the try block.
After(t, op, ok) ==
    IF t \in Clients THEN "idle"
    ELSE IF op = "fsv" /\ t \in FwWorkers THEN (IF ok THEN "fw_synth" ELSE "w_failed")
    ELSE IF op = "fsv" THEN (IF ok THEN "w_oracle" ELSE "idle")
    ELSE IF ok THEN "w_done" ELSE "w_failed"

\* The outcome of a call is recorded for a thread whose caller sees it; the
\* run loop of a worker keeps none.
Outcome(t, r) == IF t \in Clients THEN [res EXCEPT ![t] = r] ELSE res

\* The locals of process_task that are dead once the memory call is made.
Applied(t) ==
    IF t \in AllWorkers
    THEN [wk EXCEPT ![t].raw = "-", ![t].sout = "-", ![t].c = "-", ![t].tid = 0]
    ELSE wk

Finish(t, op, ok, exc) ==
    /\ pc' = [pc EXCEPT ![t] = After(t, op, ok)]
    /\ loc' = [loc EXCEPT ![t] = NoLoc]
    /\ wk' = IF t \in AllWorkers
             THEN IF After(t, op, ok) = "idle" THEN [wk EXCEPT ![t] = NoWk]
                  ELSE IF ok THEN wk ELSE [wk EXCEPT ![t].exc = exc]
             ELSE wk

\* ------------------------------------------------------------ ACE_Memory.add
\* core.py 97-104: INSERT the row (committed with its FTS mirror by the
\* trigger) and take lastrowid; raises when the table is gone.
AddCall(t, c) ==
    /\ Len(docs) < MaxDocs
    /\ IF docsTable
       THEN /\ docs' = Append(docs, c)
            /\ pc' = [pc EXCEPT ![t] = "add_enc"]
            /\ loc' = [loc EXCEPT ![t] = [NoLoc EXCEPT !.c = c, !.id = Len(docs) + 1]]
            /\ wk' = Applied(t)
       ELSE /\ docs' = docs
            /\ Finish(t, "add", FALSE, "no such table")
    /\ res' = Outcome(t, IF docsTable THEN NoRes ELSE Raised)

\* core.py 107: encoder.encode raises; the inserted row stays committed.
AddEncodeFail(t) ==
    /\ pc[t] = "add_enc"
    /\ orphan' = orphan \cup {loc[t].id}
    /\ res' = Outcome(t, Raised)
    /\ Finish(t, "add", FALSE, "encoder error")
    /\ UNCHANGED <<dbVars, fileVars, lock, facVars, nops, auxVars>>

\* core.py 110-114 (and 149-153): the index add works on once it holds the
\* lock: the file when it can be read, an empty index when the read raises,
\* the facade's own index when there is no file.
ReadOrEmpty(f) ==
    IF ~idxExists THEN index[f] ELSE IF idxReadable THEN idxFile ELSE <<>>

\* An add that takes the lock and works on the index the facade holds,
\* without reading the file.
AddLockNoReload(t) ==
    /\ pc[t] = "add_enc"
    /\ LockFree
    /\ lock' = Acquired(t)
    /\ pc' = [pc EXCEPT ![t] = "add_locked"]
    /\ UNCHANGED <<dbVars, fileVars, facVars, loc, res, wk, orphan, nops,
                   auxVars>>

\* core.py 107-114: encode, take the lock, read the latest index file.
AddLock(t) ==
    /\ pc[t] = "add_enc"
    /\ LockFree
    /\ lock' = Acquired(t)
    /\ index' = [index EXCEPT ![Fac(t)] = ReadOrEmpty(Fac(t))]
    /\ pc' = [pc EXCEPT ![t] = "add_locked"]
    /\ UNCHANGED <<dbVars, fileVars, lastMtime, loc, res, wk, orphan, nops, auxVars>>

\* An add that changes the index in memory and never writes the file.
AddWriteNotPersisted(t) ==
    /\ pc[t] = "add_locked"
    /\ index' = [index EXCEPT ![Fac(t)] = AddWithIds(@, loc[t].id, loc[t].c)]
    /\ lastMtime' = [lastMtime EXCEPT ![Fac(t)] = idxMtime]
    /\ lock' = Released(t)
    /\ res' = Outcome(t, Returned)
    /\ Finish(t, "add", TRUE, "-")
    /\ UNCHANGED <<dbVars, fileVars, orphan, nops, auxVars>>

\* core.py 118-120: add_with_ids, write_index, record the mtime, release.
AddWrite(t) ==
    /\ pc[t] = "add_locked"
    /\ LET new == AddWithIds(index[Fac(t)], loc[t].id, loc[t].c)
       IN /\ index' = [index EXCEPT ![Fac(t)] = new]
          /\ idxFile' = new
    /\ idxExists' = TRUE /\ idxReadable' = TRUE
    /\ clock' = clock + 1
    /\ idxMtime' = clock + 1
    /\ lastMtime' = [lastMtime EXCEPT ![Fac(t)] = clock + 1]
    /\ lock' = Released(t)
    /\ res' = Outcome(t, Returned)
    /\ Finish(t, "add", TRUE, "-")
    /\ UNCHANGED <<dbVars, orphan, nops, auxVars>>

\* ------------------------------------------------------ ACE_Memory.add_batch
\* The batches a caller can pass: up to MaxDocs contents, the empty list
\* included.
Batches == UNION {[1..n -> Contents] : n \in 0..MaxDocs}

\* The vectors of a batch whose rows start at id first.
BatchVectors(first, cs) == [i \in 1..Len(cs) |-> <<first + i - 1, cs[i]>>]

\* core.py 124-139: return at once on an empty list; otherwise INSERT every
\* row in one transaction (ids follow each other); raises when the table is
\* gone.
BatchCall(t, cs) ==
    /\ Len(docs) + Len(cs) <= MaxDocs
    /\ IF cs = <<>>
       THEN /\ docs' = docs
            /\ res' = Outcome(t, Returned)
            /\ Finish(t, "add", TRUE, "-")
       ELSE IF docsTable
       THEN /\ docs' = docs \o cs
            /\ pc' = [pc EXCEPT ![t] = "bat_enc"]
            /\ loc' = [loc EXCEPT ![t] = [NoLoc EXCEPT !.cs = cs, !.id = Len(docs) + 1]]
            /\ wk' = wk
            /\ res' = Outcome(t, NoRes)
       ELSE /\ docs' = docs
            /\ res' = Outcome(t, Raised)
            /\ Finish(t, "add", FALSE, "no such table")

\* core.py 143: encoder.encode raises; the inserted rows stay committed.
BatchEncodeFail(t) ==
    /\ pc[t] = "bat_enc"
    /\ orphan' = orphan \cup (loc[t].id .. (loc[t].id + Len(loc[t].cs) - 1))
    /\ res' = Outcome(t, Raised)
    /\ Finish(t, "add", FALSE, "encoder error")
    /\ UNCHANGED <<dbVars, fileVars, lock, facVars, nops, auxVars>>

\* core.py 143-153: encode the batch, take the lock, read the latest file.
BatchLock(t) ==
    /\ pc[t] = "bat_enc"
    /\ LockFree
    /\ lock' = Acquired(t)
    /\ index' = [index EXCEPT ![Fac(t)] = ReadOrEmpty(Fac(t))]
    /\ pc' = [pc EXCEPT ![t] = "bat_locked"]
    /\ UNCHANGED <<dbVars, fileVars, lastMtime, loc, res, wk, orphan, nops,
                   auxVars>>

\* A batch write that adds the vector of the first item only.
BatchWriteFirstOnly(t) ==
    /\ pc[t] = "bat_locked"
    /\ LET new == AddWithIds(index[Fac(t)], loc[t].id, loc[t].cs[1])
       IN /\ index' = [index EXCEPT ![Fac(t)] = new]
          /\ idxFile' = new
    /\ idxExists' = TRUE /\ idxReadable' = TRUE
    /\ clock' = clock + 1
    /\ idxMtime' = clock + 1
    /\ lastMtime' = [lastMtime EXCEPT ![Fac(t)] = clock + 1]
    /\ lock' = Released(t)
    /\ res' = Outcome(t, Returned)
    /\ Finish(t, "add", TRUE, "-")
    /\ UNCHANGED <<dbVars, orphan, nops, auxVars>>

\* core.py 155-157: one add_with_ids for the batch, one write_index, record
\* the mtime, release.
BatchWrite(t) ==
    /\ pc[t] = "bat_locked"
    /\ LET new == index[Fac(t)] \o BatchVectors(loc[t].id, loc[t].cs)
       IN /\ index' = [index EXCEPT ![Fac(t)] = new]
          /\ idxFile' = new
    /\ idxExists' = TRUE /\ idxReadable' = TRUE
    /\ clock' = clock + 1
    /\ idxMtime' = clock + 1
    /\ lastMtime' = [lastMtime EXCEPT ![Fac(t)] = clock + 1]
    /\ lock' = Released(t)
    /\ res' = Outcome(t, Returned)
    /\ Finish(t, "add", TRUE, "-")
    /\ UNCHANGED <<dbVars, orphan, nops, auxVars>>

\* ------------------------------------------------ ACE_Memory.update_document
\* core.py 196-201: UPDATE ... WHERE id = ? (no row: nothing changes).
UpdateCall(t, id, c) ==
    /\ IF docsTable
       THEN /\ docs' = IF id \in 1..Len(docs) THEN [docs EXCEPT ![id] = c] ELSE docs
            /\ pc' = [pc EXCEPT ![t] = "upd_enc"]
            /\ loc' = [loc EXCEPT ![t] = [NoLoc EXCEPT !.c = c, !.id = id]]
            /\ wk' = Applied(t)
       ELSE /\ docs' = docs
            /\ Finish(t, "upd", FALSE, "no such table")
    /\ res' = Outcome(t, IF docsTable THEN NoRes ELSE Raised)

\* core.py 204: encoder.encode raises after the row was updated.
UpdateEncodeFail(t) ==
    /\ pc[t] = "upd_enc"
    /\ res' = Outcome(t, Raised)
    /\ Finish(t, "upd", FALSE, "encoder error")
    /\ UNCHANGED <<dbVars, fileVars, lock, facVars, orphan, nops, auxVars>>

\* core.py 204-210: encode, take the lock, read the file, remove_ids.
UpdateLock(t) ==
    /\ pc[t] = "upd_enc"
    /\ LockFree
    /\ idxExists => idxReadable
    /\ lock' = Acquired(t)
    /\ index' = [index EXCEPT ![Fac(t)] =
                    RemoveIds(IF idxExists THEN idxFile ELSE @, loc[t].id)]
    /\ pc' = [pc EXCEPT ![t] = "upd_locked"]
    /\ UNCHANGED <<dbVars, fileVars, lastMtime, loc, res, wk, orphan, nops, auxVars>>

\* core.py 207-208: read_index is not guarded in update_document; on a file
\* that cannot be read it raises, the lock is released and nothing is
\* written.
UpdateReadFail(t) ==
    /\ pc[t] = "upd_enc"
    /\ LockFree
    /\ idxExists /\ ~idxReadable
    /\ res' = Outcome(t, Raised)
    /\ Finish(t, "upd", FALSE, "read error")
    /\ UNCHANGED <<dbVars, fileVars, lock, facVars, orphan, nops, auxVars>>

\* core.py 213-215: add_with_ids, write_index, record the mtime, release.
UpdateWrite(t) ==
    /\ pc[t] = "upd_locked"
    /\ LET new == AddWithIds(index[Fac(t)], loc[t].id, loc[t].c)
       IN /\ index' = [index EXCEPT ![Fac(t)] = new]
          /\ idxFile' = new
    /\ idxExists' = TRUE /\ idxReadable' = TRUE
    /\ clock' = clock + 1
    /\ idxMtime' = clock + 1
    /\ lastMtime' = [lastMtime EXCEPT ![Fac(t)] = clock + 1]
    /\ lock' = Released(t)
    /\ res' = Outcome(t, Returned)
    /\ Finish(t, "upd", TRUE, "-")
    /\ orphan' = orphan \ {loc[t].id}
    /\ UNCHANGED <<dbVars, nops, auxVars>>

\* ---------------------------------------------------------- ACE_Memory.clear
\* A clear that removes the database file and leaves the index file.
ClearCallKeepsIndex(t) ==
    /\ docs' = <<>> /\ docsTable' = FALSE
    /\ tasks' = <<>> /\ taskTable' = FALSE
    /\ lock' = [held |-> {}, stale |-> lock.stale \cup lock.held]
    /\ orphan' = {}
    /\ pc' = [pc EXCEPT ![t] = "init_db"]
    /\ loc' = [loc EXCEPT ![t] = NoLoc]
    /\ res' = Outcome(t, NoRes)
    /\ UNCHANGED <<fileVars, facVars, wk, auxVars>>

\* core.py 268-274: remove the database file (documents and task_queue live
\* in it), the index file and the lock file; no lock is taken.
ClearCall(t) ==
    /\ docs' = <<>> /\ docsTable' = FALSE
    /\ tasks' = <<>> /\ taskTable' = FALSE
    /\ idxExists' = FALSE /\ idxFile' = <<>> /\ idxReadable' = TRUE
    /\ lock' = [held |-> {}, stale |-> lock.stale \cup lock.held]
    /\ orphan' = {}
    /\ pc' = [pc EXCEPT ![t] = "init_db"]
    /\ loc' = [loc EXCEPT ![t] = NoLoc]
    /\ res' = Outcome(t, NoRes)
    /\ UNCHANGED <<idxMtime, clock, facVars, wk, auxVars>>

\* core.py 28, 42-57: __init__ resets last_index_mtime; _init_db creates the
\* documents table and its FTS mirror (not task_queue).
InitDb(t) ==
    /\ pc[t] = "init_db"
    /\ docsTable' = TRUE
    /\ lastMtime' = [lastMtime EXCEPT ![Fac(t)] = 0]
    /\ pc' = [pc EXCEPT ![t] = "init_load"]
    /\ UNCHANGED <<docs, tasks, taskTable, fileVars, lock, index, loc, res,
                   wk, orphan, nops, auxVars>>

\* core.py 60: _load_or_build_index takes the lock.
InitLock(t) ==
    /\ pc[t] = "init_load"
    /\ LockFree
    /\ lock' = Acquired(t)
    /\ pc' = [pc EXCEPT ![t] = "init_locked"]
    /\ UNCHANGED <<dbVars, fileVars, facVars, loc, res, wk, orphan, nops, auxVars>>

\* core.py 61-69: the index a facade starts with: the file when there is
\* one that can be read, else one vector per document row.
LoadOrBuild == IF idxExists /\ idxReadable THEN idxFile ELSE RebuildVectors(docs)

\* core.py 65-73: the facade starts with index idx; without a file the
\* index is written (70), over a file that could not be read it is not;
\* the mtime of the file is recorded and the lock released.
InitDone(t, idx) ==
    /\ index' = [index EXCEPT ![Fac(t)] = idx]
    /\ IF idxExists
       THEN /\ lastMtime' = [lastMtime EXCEPT ![Fac(t)] = idxMtime]
            /\ UNCHANGED fileVars
       ELSE /\ idxFile' = idx
            /\ idxExists' = TRUE /\ idxReadable' = TRUE
            /\ clock' = clock + 1
            /\ idxMtime' = clock + 1
            /\ lastMtime' = [lastMtime EXCEPT ![Fac(t)] = clock + 1]
    /\ lock' = Released(t)
    /\ res' = Outcome(t, Returned)
    /\ Finish(t, "clear", TRUE, "-")

\* core.py 61-69 and 82-86, under the lock: read the file; when it is
\* absent or the read raises, create an empty index and SELECT the rows
\* (raising when the table is gone). With rows, the encoder is called next.
InitLoad(t) ==
    /\ pc[t] = "init_locked"
    /\ IF idxExists /\ idxReadable
       THEN InitDone(t, idxFile)
       ELSE IF ~docsTable
       THEN /\ index' = [index EXCEPT ![Fac(t)] = <<>>]
            /\ lock' = Released(t)
            /\ res' = Outcome(t, Raised)
            /\ Finish(t, "clear", FALSE, "no such table")
            /\ UNCHANGED <<fileVars, lastMtime>>
       ELSE IF docs = <<>>
       THEN InitDone(t, <<>>)
       ELSE /\ index' = [index EXCEPT ![Fac(t)] = <<>>]
            /\ pc' = [pc EXCEPT ![t] = "init_rebuild"]
            /\ loc' = [loc EXCEPT ![t] = [NoLoc EXCEPT !.cs = docs]]
            /\ UNCHANGED <<fileVars, lastMtime, lock, res, wk>>
    /\ UNCHANGED <<dbVars, orphan, nops, auxVars>>

\* core.py 87-94, still under the lock of line 60: encode the contents of
\* the rows and add one vector per row.
InitRebuild(t) ==
    /\ pc[t] = "init_rebuild"
    /\ InitDone(t, RebuildVectors(loc[t].cs))
    /\ UNCHANGED <<dbVars, orphan, nops, auxVars>>

\* core.py 90: encoder.encode raises; the constructor raises with the lock
\* released and the index left empty.
InitRebuildFail(t) ==
    /\ pc[t] = "init_rebuild"
    /\ lock' = Released(t)
    /\ res' = Outcome(t, Raised)
    /\ Finish(t, "clear", FALSE, "encoder error")
    /\ UNCHANGED <<dbVars, fileVars, facVars, orphan, nops, auxVars>>

\* core.py 15-40: ACE_Memory(session_id) is constructed anew over the files
\* as they are (by a restarted process, or for a new request).
ClientConstruct(t) ==
    /\ pc[t] = "idle"
    /\ pc' = [pc EXCEPT ![t] = "init_db"]
    /\ res' = Outcome(t, NoRes)
    /\ UNCHANGED <<dbVars, fileVars, lock, facVars, loc, wk, orphan, nops,
                   auxVars>>

\* core.py 61, 67: the index file is absent at the next construction (it was
\* deleted while no call was in progress).
IndexFileRemoved ==
    /\ \A t \in Threads : pc[t] = "idle"
    /\ nops < MaxOps /\ idxExists
    /\ idxExists' = FALSE /\ idxFile' = <<>> /\ idxReadable' = TRUE
    /\ nops' = nops + 1
    /\ UNCHANGED <<dbVars, idxMtime, clock, lock, facVars, pc, loc, res, wk,
                   orphan, auxVars>>

\* core.py 62-64: faiss.read_index raises at the next read (the file was
\* truncated or overwritten while no call was in progress).
IndexFileCorrupted ==
    /\ \A t \in Threads : pc[t] = "idle"
    /\ nops < MaxOps /\ idxExists /\ idxReadable
    /\ idxReadable' = FALSE /\ idxFile' = <<>>
    /\ clock' = clock + 1 /\ idxMtime' = clock + 1
    /\ nops' = nops + 1
    /\ UNCHANGED <<dbVars, idxExists, lock, facVars, pc, loc, res, wk, orphan,
                   auxVars>>

\* --------------------------------------------------------- ACE_Memory.search
\* A freshness check with the comparison turned around.
StaleReversed(f) == idxExists /\ idxMtime < lastMtime[f]

\* core.py 218-220 and 164-167: the persisted index is newer than the one
\* this facade last read or wrote.
Stale(f) == idxExists /\ idxMtime > lastMtime[f]

\* The index a search on facade f is evaluated on, called with no other
\* call in progress.
SearchIndex(f) == IF Stale(f) THEN idxFile ELSE index[f]

\* core.py 218-220: the freshness check, made without the lock.
SearchCall(t, q, k) ==
    /\ pc' = [pc EXCEPT ![t] = IF Stale(Fac(t)) THEN "srch_reload" ELSE "srch_eval"]
    /\ loc' = [loc EXCEPT ![t] = [NoLoc EXCEPT !.q = q, !.k = k,
                                           !.cur = IF idxExists THEN idxMtime ELSE 0,
                                           !.newer = Stale(Fac(t))]]
    /\ res' = Outcome(t, NoRes)

\* core.py 221-226: reload under the lock; a failing read is swallowed.
SearchReload(t) ==
    /\ pc[t] = "srch_reload"
    /\ LockFree
    /\ IF idxExists /\ idxReadable
       THEN /\ index' = [index EXCEPT ![Fac(t)] = idxFile]
            /\ lastMtime' = [lastMtime EXCEPT ![Fac(t)] = loc[t].cur]
       ELSE UNCHANGED facVars
    /\ pc' = [pc EXCEPT ![t] = "srch_eval"]
    /\ UNCHANGED <<dbVars, fileVars, lock, loc, res, wk, orphan, nops, auxVars>>

\* A search whose lexical query is not guarded: a query that FTS5 cannot
\* parse raises out of search when the lexical phase runs.
SearchRaisesOnFts(t) ==
    \/ ~docsTable
          /\ FoundIds(index[Fac(t)], loc[t].q, loc[t].k, DISTANCE_THRESHOLD) # <<>>
    \/ /\ Malformed(loc[t].q)
       /\ Len(VectorPhase(index[Fac(t)], docs, loc[t].q, loc[t].k,
                          DISTANCE_THRESHOLD)) < loc[t].k

\* The SELECT of the vector phase (core.py 246-252) is outside any try.
SearchRaises(t) ==
    /\ ~docsTable
    /\ FoundIds(index[Fac(t)], loc[t].q, loc[t].k, DISTANCE_THRESHOLD) # <<>>

\* core.py 230-265: what search returns to thread t when it evaluates both
\* phases now; the lexical query raises (and is swallowed, 263-264) when the
\* table is gone or the query cannot be parsed.
SearchOutput(t) ==
    SearchResult(index[Fac(t)], docs, loc[t].q, loc[t].k, DISTANCE_THRESHOLD,
                 docsTable /\ ~Malformed(loc[t].q))

\* core.py 230-265: both phases, on the in-memory index, without the lock.
SearchEval(t) ==
    /\ pc[t] = "srch_eval"
    /\ res' = Outcome(t, IF SearchRaises(t) THEN Raised ELSE Returned)
    /\ Finish(t, "search", ~SearchRaises(t), "no such table")
    /\ UNCHANGED <<dbVars, fileVars, lock, facVars, orphan, nops, auxVars>>

\* core.py 233: encoder.encode of the query raises (index not empty).
SearchEncodeFail(t) ==
    /\ pc[t] = "srch_eval"
    /\ Len(index[Fac(t)]) > 0
    /\ res' = Outcome(t, Raised)
    /\ Finish(t, "search", FALSE, "encoder error")
    /\ UNCHANGED <<dbVars, fileVars, lock, facVars, orphan, nops, auxVars>>

\* ------------------------------------------- ACE_Memory.find_similar_vectors
\* core.py 160-161: the query is encoded before the lock is taken.
SimilarCall(t, q) ==
    /\ pc' = [pc EXCEPT ![t] = "fsv_lock"]
    /\ loc' = [loc EXCEPT ![t] = [NoLoc EXCEPT !.q = q]]
    /\ res' = Outcome(t, NoRes)

\* background.py 55 passes threshold=0.4, ace_framework.py 424 passes 0.5.
Threshold(t) == IF t \in FwWorkers THEN FwSimilarThreshold ELSE SimilarThreshold

\* core.py 163-185: freshness check, reload and search, all under the lock;
\* a read that raises is swallowed and the facade keeps its index.
SimilarBody(t) ==
    /\ pc[t] = "fsv_lock"
    /\ LockFree
    /\ LET fresh == Stale(Fac(t)) /\ idxReadable
           idx == IF fresh THEN idxFile ELSE index[Fac(t)]
           ids == SimilarIds(idx, loc[t].q, Threshold(t))
       IN /\ index' = [index EXCEPT ![Fac(t)] = idx]
          /\ lastMtime' = [lastMtime EXCEPT ![Fac(t)] = IF fresh THEN idxMtime ELSE @]
          /\ res' = Outcome(t, Returned)
          /\ pc' = [pc EXCEPT ![t] = After(t, "fsv", TRUE)]
          /\ loc' = [loc EXCEPT ![t] = NoLoc]
          /\ wk' = IF t \in AllWorkers THEN [wk EXCEPT ![t].sim = ids] ELSE wk
    /\ UNCHANGED <<dbVars, fileVars, lock, orphan, nops, auxVars>>

\* ----------------------------------------------------------------- clients
\* A request thread (or a script) calling the facade and the queue directly.
ClientAdd(t) ==
    /\ pc[t] = "idle" /\ nops < MaxOps
    /\ \E c \in Contents : AddCall(t, c)
    /\ nops' = nops + 1
    /\ UNCHANGED <<docsTable, tasks, taskTable, fileVars, lock, facVars, orphan,
                   auxVars>>

ClientAddBatch(t) ==
    /\ pc[t] = "idle" /\ nops < MaxOps
    /\ \E cs \in Batches : BatchCall(t, cs)
    /\ nops' = nops + 1
    /\ UNCHANGED <<docsTable, tasks, taskTable, fileVars, lock, facVars, orphan,
                   auxVars>>

ClientUpdate(t) ==
    /\ pc[t] = "idle" /\ nops < MaxOps
    /\ \E id \in 1..MaxDocs, c \in Contents : UpdateCall(t, id, c)
    /\ nops' = nops + 1
    /\ UNCHANGED <<docsTable, tasks, taskTable, fileVars, lock, facVars, orphan,
                   auxVars>>

ClientClear(t) ==
    /\ pc[t] = "idle" /\ nops < MaxOps
    /\ ClearCall(t)
    /\ nops' = nops + 1

ClientSearch(t) ==
    /\ pc[t] = "idle"
    /\ \E q \in Queries, k \in 1..MaxK : SearchCall(t, q, k)
    /\ UNCHANGED <<dbVars, fileVars, lock, facVars, wk, orphan, nops, auxVars>>

\* search called with a query that FTS5 cannot parse.
ClientSearchMalformed(t) ==
    /\ pc[t] = "idle"
    /\ \E q \in MalformedQueries, k \in 1..MaxK : SearchCall(t, q, k)
    /\ UNCHANGED <<dbVars, fileVars, lock, facVars, wk, orphan, nops, auxVars>>

\* search called with a query whose vector hit and keyword hit differ.
ClientSearchMixed(t) ==
    /\ pc[t] = "idle"
    /\ \E q \in MixedQueries, k \in 1..MaxK : SearchCall(t, q, k)
    /\ UNCHANGED <<dbVars, fileVars, lock, facVars, wk, orphan, nops, auxVars>>

ClientSimilar(t) ==
    /\ pc[t] = "idle"
    /\ \E q \in Queries : SimilarCall(t, q)
    /\ UNCHANGED <<dbVars, fileVars, lock, facVars, wk, orphan, nops, auxVars>>

\* ------------------------------------------------------------------- queue
NewTask == [status |-> "pending", err |-> "-", by |-> {}, muts |-> 0,
            dirty |-> FALSE]

\* queue.py 35-40: enqueue_task.
EnqueueTask(t) ==
    /\ pc[t] = "idle"
    /\ taskTable
    /\ Len(tasks) < MaxTasks
    /\ tasks' = Append(tasks, NewTask)
    /\ UNCHANGED <<docs, docsTable, taskTable, fileVars, lock, facVars, pc,
                   loc, res, wk, orphan, nops, auxVars>>

Pending == {i \in 1..Len(tasks) : tasks[i].status = "pending"}

\* A fetch that returns the pending task with the largest id.
FetchNewest ==
    IF Pending = {} THEN 0 ELSE CHOOSE i \in Pending : \A j \in Pending : i >= j

\* queue.py 42-50: SELECT ... WHERE status = 'pending' ORDER BY id ASC
\* LIMIT 1: the pending task with the smallest id, 0 (None) without one.
FetchPending ==
    IF Pending = {} THEN 0 ELSE CHOOSE i \in Pending : \A j \in Pending : i <= j

\* queue.py 52-62: UPDATE task_queue SET status = ? WHERE id = ?, whatever
\* the current status is.
SetStatus(q, id, st) == [q EXCEPT ![id].status = st]

MarkProcessing(q, id, w) ==
    [SetStatus(q, id, "processing") EXCEPT ![id].by = @ \cup {w}]

MarkComplete(q, id) == SetStatus(q, id, "done")

MarkFailed(q, id, msg) == [SetStatus(q, id, "failed") EXCEPT ![id].err = msg]

\* ------------------------------------------------------- BackgroundWorker
\* background.py 25-29, ace_framework.py 362-366: one turn of run() in which
\* the loop condition holds and fetch_pending_task returns a task (otherwise
\* the loop sleeps).
WorkerFetch(w) ==
    /\ pc[w] = "idle"
    /\ running[w]
    /\ taskTable
    /\ FetchPending # 0
    /\ wk' = [wk EXCEPT ![w] = [NoWk EXCEPT !.task = FetchPending]]
    /\ pc' = [pc EXCEPT ![w] = "w_fetched"]
    /\ UNCHANGED <<dbVars, fileVars, lock, facVars, loc, res, orphan, nops, auxVars>>

\* background.py 36-37: stop(), called from another thread (app.py 317-322).
WorkerStop(w) ==
    /\ running[w]
    /\ running' = [running EXCEPT ![w] = FALSE]
    /\ UNCHANGED <<dbVars, fileVars, lock, facVars, pc, loc, res, wk, orphan,
                   nops, graph, appVars>>

\* A loop whose condition does not read the flag.
LoopCheckIgnoresFlag(w) ==
    /\ pc[w] = "idle"
    /\ pc' = [pc EXCEPT ![w] = "w_loop"]
    /\ UNCHANGED <<dbVars, fileVars, lock, facVars, loc, res, wk, orphan, nops,
                   auxVars>>

\* background.py 25: while self.running, evaluated on its own so that stop()
\* can fall between the test and the fetch; run() returns when it fails.
LoopCheck(w) ==
    /\ pc[w] = "idle"
    /\ pc' = [pc EXCEPT ![w] = IF running[w] THEN "w_loop" ELSE "stopped"]
    /\ UNCHANGED <<dbVars, fileVars, lock, facVars, loc, res, wk, orphan, nops,
                   auxVars>>

\* background.py 26-34: fetch_pending_task; with a task process_task is
\* entered, without one (or when the fetch raises) the loop sleeps and
\* tests its condition again.
LoopFetch(w) ==
    /\ pc[w] = "w_loop"
    /\ IF taskTable /\ FetchPending # 0
       THEN /\ wk' = [wk EXCEPT ![w] = [NoWk EXCEPT !.task = FetchPending]]
            /\ pc' = [pc EXCEPT ![w] = "w_fetched"]
       ELSE /\ wk' = wk
            /\ pc' = [pc EXCEPT ![w] = "idle"]
    /\ UNCHANGED <<dbVars, fileVars, lock, facVars, loc, res, orphan, nops,
                   auxVars>>

\* A run loop that an exception of the fetch ends.
LoopFetchFailEnds(w) ==
    /\ pc[w] = "w_loop"
    /\ nops < MaxOps
    /\ nops' = nops + 1
    /\ pc' = [pc EXCEPT ![w] = "stopped"]
    /\ UNCHANGED <<dbVars, fileVars, lock, facVars, loc, res, wk, orphan,
                   auxVars>>

\* background.py 27, 32-34: fetch_pending_task raises (sqlite3 reports a
\* locked database, a passing fault); the loop logs the error, sleeps and
\* tests its condition again.
LoopFetchFail(w) ==
    /\ pc[w] = "w_loop"
    /\ nops < MaxOps
    /\ nops' = nops + 1
    /\ pc' = [pc EXCEPT ![w] = "idle"]
    /\ UNCHANGED <<dbVars, fileVars, lock, facVars, loc, res, wk, orphan,
                   auxVars>>

\* What process_task does after mark_task_processing: background.py 55
\* searches for candidates, ace_framework.py 409 calls the oracle.
Entry(w) == IF w \in FwWorkers THEN "fw_oracle" ELSE "w_similar"

\* background.py 42, ace_framework.py 379: mark_task_processing; with the
\* table gone it raises and the exception escapes to the run loop.
WorkerMarkProcessing(w) ==
    /\ pc[w] = "w_fetched"
    /\ IF taskTable
       THEN /\ tasks' = MarkProcessing(tasks, wk[w].task, w)
            /\ pc' = [pc EXCEPT ![w] = Entry(w)]
            /\ wk' = wk
       ELSE /\ tasks' = tasks
            /\ pc' = [pc EXCEPT ![w] = "idle"]
            /\ wk' = [wk EXCEPT ![w] = NoWk]
    /\ UNCHANGED <<docs, docsTable, taskTable, fileVars, lock, facVars, loc,
                   res, orphan, nops, auxVars>>

\* background.py 54-55: find_similar_vectors(search_query, threshold=0.4).
WorkerSimilar(w) ==
    /\ pc[w] = "w_similar"
    /\ \E q \in Queries : SimilarCall(w, q)
    /\ UNCHANGED <<dbVars, fileVars, lock, facVars, wk, orphan, nops, auxVars>>

\* core.py 161 raises inside background.py 55, which is before the try
\* block of process_task: the run loop logs the error and goes on.
WorkerSimilarEncodeFail(w) ==
    /\ pc[w] = "w_similar"
    /\ pc' = [pc EXCEPT ![w] = "idle"]
    /\ wk' = [wk EXCEPT ![w] = NoWk]
    /\ UNCHANGED <<dbVars, fileVars, lock, facVars, loc, res, orphan, nops, auxVars>>

\* background.py 58-63: get_document_by_id on the candidates raises when the
\* documents table is gone; also before the try block.
WorkerCandidateFail(w) ==
    /\ pc[w] = "w_oracle"
    /\ wk[w].sim # <<>>
    /\ ~docsTable
    /\ pc' = [pc EXCEPT ![w] = "idle"]
    /\ wk' = [wk EXCEPT ![w] = NoWk]
    /\ UNCHANGED <<dbVars, fileVars, lock, facVars, loc, res, orphan, nops, auxVars>>

Decisions == {"raise", "empty", "badjson", "nostore", "KEPT", "NEW", "UPDATE"}

\* An oracle call whose exception is treated like an unusable answer.
AfterOracleSwallowed(d) ==
    IF d \in {"NEW", "UPDATE"} THEN "w_apply" ELSE "w_done"

\* An oracle step that fails the task on an unparsable answer, as the
\* worker of ace_framework.py does.
AfterOracleStrict(d) ==
    IF d \in {"raise", "badjson"} THEN "w_failed"
    ELSE IF d \in {"NEW", "UPDATE"} THEN "w_apply"
    ELSE "w_done"

\* An oracle step that stores on KEPT as it does on NEW.
AfterOracleKeptStores(d) ==
    IF d = "raise" THEN "w_failed"
    ELSE IF d \in {"NEW", "UPDATE", "KEPT"} THEN "w_apply"
    ELSE "w_done"

\* Answers with should_store = true whose action is none of the three the
\* prompt names: no action key at all, and a string of its own.
OtherActions == {"absent", "MERGE"}

\* An oracle step that stores only for the actions NEW and UPDATE.
AfterOracleKnownOnly(d) ==
    IF d = "raise" THEN "w_failed"
    ELSE IF d \in {"NEW", "UPDATE"} THEN "w_apply"
    ELSE "w_done"

\* Where process_task goes after the oracle call of background.py 84:
\* llm.invoke raises (139-141); an empty, unparsable or should_store=false
\* answer and KEPT change nothing (88-110, 129, 134); every other answer goes
\* on to the memory call (126-133).
AfterOracle(d) ==
    IF d = "raise" THEN "w_failed"
    ELSE IF d \in {"empty", "badjson", "nostore", "KEPT"} THEN "w_done"
    ELSE "w_apply"

\* What the structuring call can yield: a text, an empty response, or an
\* exception.
StructOutcomes == Contents \cup {"empty", "raise"}

\* A structuring step whose failure yields an empty content.
StructuredNoFallback(raw, out) == IF out \in Contents THEN out ELSE "-"

\* background.py 143-166, _structure_as_knowledge_model: the text returned
\* by the oracle, or the raw analysis when the call raises or returns an
\* empty response.
Structured(raw, out) == IF out \in Contents THEN out ELSE raw

\* background.py 58-124: candidates fetched, prompt built, oracle called,
\* answer parsed, analysis structured. tid 0 is target_doc_id = None. (For
\* KEPT the structuring call is made and its result is not used; the
\* candidates are not used after the prompt is built.)
OracleAnswer(w, d, raw, out, tid) ==
    /\ pc' = [pc EXCEPT ![w] = AfterOracle(d)]
    /\ wk' = [wk EXCEPT ![w].dec = d, ![w].raw = raw, ![w].sout = out,
                        ![w].c = IF raw = "-" THEN "-" ELSE Structured(raw, out),
                        ![w].tid = tid,
                        ![w].exc = IF d = "raise" THEN "oracle error" ELSE "-",
                        ![w].sim = <<>>]

\* background.py 83-124: the answers the oracle can give. Only NEW and
\* UPDATE use the analysis, only UPDATE the target.
WorkerOracle(w) ==
    /\ pc[w] = "w_oracle"
    /\ ~(wk[w].sim # <<>> /\ ~docsTable)
    /\ \/ \E d \in Decisions \ {"NEW", "UPDATE"} :
             OracleAnswer(w, d, "-", "-", 0)
       \/ \E raw \in Contents, out \in StructOutcomes :
             OracleAnswer(w, "NEW", raw, out, 0)
       \/ \E raw \in Contents, out \in StructOutcomes, tid \in 0..MaxDocs :
             OracleAnswer(w, "UPDATE", raw, out, tid)
    /\ UNCHANGED <<dbVars, fileVars, lock, facVars, loc, res, orphan, nops, auxVars>>

\* background.py 113-114: an answer with should_store = true whose action
\* key is missing (data.get defaults to NEW) or holds another string, with
\* or without a target.
WorkerOracleOther(w) ==
    /\ pc[w] = "w_oracle"
    /\ ~(wk[w].sim # <<>> /\ ~docsTable)
    /\ \E d \in OtherActions, raw \in Contents, out \in StructOutcomes,
          tid \in 0..MaxDocs : OracleAnswer(w, d, raw, out, tid)
    /\ UNCHANGED <<dbVars, fileVars, lock, facVars, loc, res, orphan, nops, auxVars>>

\* History: one more memory call made on behalf of task id.
CountMutation(q, id) ==
    IF taskTable /\ id \in 1..Len(q) THEN [q EXCEPT ![id].muts = @ + 1] ELSE q

\* History: a memory call made on behalf of task id inserted or changed a
\* row (ch).
MarkDirty(q, id, ch) ==
    IF taskTable /\ id \in 1..Len(q) THEN [q EXCEPT ![id].dirty = @ \/ ch] ELSE q

\* background.py 126-133, ace_framework.py 493-499: update_document for
\* UPDATE with a target, add otherwise.
WorkerApply(w) ==
    /\ pc[w] = "w_apply"
    /\ IF wk[w].dec = "UPDATE" /\ wk[w].tid # 0
       THEN UpdateCall(w, wk[w].tid, wk[w].c)
       ELSE AddCall(w, wk[w].c)
    /\ tasks' = IF docsTable
                THEN MarkDirty(CountMutation(tasks, wk[w].task), wk[w].task,
                               docs' # docs)
                ELSE tasks
    /\ UNCHANGED <<docsTable, taskTable, fileVars, lock, facVars, orphan, nops, auxVars>>

\* background.py 137, ace_framework.py 502: mark_task_complete. With the table gone it raises into
\* the except clause, whose mark_task_failed raises too and escapes.
WorkerMarkDone(w) ==
    /\ pc[w] = "w_done"
    /\ tasks' = IF taskTable THEN MarkComplete(tasks, wk[w].task) ELSE tasks
    /\ pc' = [pc EXCEPT ![w] = "idle"]
    /\ wk' = [wk EXCEPT ![w] = NoWk]
    /\ UNCHANGED <<docs, docsTable, taskTable, fileVars, lock, facVars, loc,
                   res, orphan, nops, auxVars>>

\* background.py 139-141, ace_framework.py 505-507:
\* mark_task_failed(task_id, str(e)).
WorkerMarkFailed(w) ==
    /\ pc[w] = "w_failed"
    /\ tasks' = IF taskTable THEN MarkFailed(tasks, wk[w].task, wk[w].exc) ELSE tasks
    /\ pc' = [pc EXCEPT ![w] = "idle"]
    /\ wk' = [wk EXCEPT ![w] = NoWk]
    /\ UNCHANGED <<docs, docsTable, taskTable, fileVars, lock, facVars, loc,
                   res, orphan, nops, auxVars>>

\* ------------------------------------- BackgroundWorker of ace_framework.py
FwDecisions == {"raise", "badjson", "nostore", "store"}

\* An oracle step that completes the task on an unparsable answer, as the
\* worker of background.py does.
FwAfterOracleLenient(d) ==
    IF d = "raise" THEN "w_failed"
    ELSE IF d = "store" THEN "fw_similar"
    ELSE "w_done"

\* Where process_task of ace_framework.py goes after lines 409-416: the
\* oracle call and json.loads are inside the try block, so an exception of
\* either reaches the except clause (505-507); should_store = false goes to
\* mark_task_complete; otherwise the storage strategy is analysed.
FwAfterOracle(d) ==
    IF d \in {"raise", "badjson"} THEN "w_failed"
    ELSE IF d = "store" THEN "fw_similar"
    ELSE "w_done"

\* ace_framework.py 409-419: oracle called, fences stripped, answer parsed.
FwOracle(w) ==
    /\ pc[w] = "fw_oracle"
    /\ \E d \in FwDecisions, raw \in Contents :
          /\ pc' = [pc EXCEPT ![w] = FwAfterOracle(d)]
          /\ wk' = [wk EXCEPT ![w].dec = d,
                              ![w].raw = IF d = "store" THEN raw ELSE "-",
                              ![w].exc = IF d = "raise" THEN "oracle error"
                                         ELSE IF d = "badjson" THEN "json error"
                                         ELSE "-"]
    /\ UNCHANGED <<dbVars, fileVars, lock, facVars, loc, res, orphan, nops, auxVars>>

\* ace_framework.py 424: find_similar_vectors(new_content, threshold=0.5).
FwSimilar(w) ==
    /\ pc[w] = "fw_similar"
    /\ SimilarCall(w, wk[w].raw)
    /\ UNCHANGED <<dbVars, fileVars, lock, facVars, wk, orphan, nops, auxVars>>

\* ace_framework.py 168 raises inside line 424, which is inside the try.
FwSimilarEncodeFail(w) ==
    /\ pc[w] = "fw_similar"
    /\ pc' = [pc EXCEPT ![w] = "w_failed"]
    /\ wk' = [wk EXCEPT ![w].exc = "encoder error"]
    /\ UNCHANGED <<dbVars, fileVars, lock, facVars, loc, res, orphan, nops, auxVars>>

SynthActions == {"error", "NEW", "KEPT", "UPDATE"}

\* ace_framework.py 426-490: without a candidate (or when its row is
\* missing) the action is NEW with the new content; otherwise the
\* synthesizer decides, and an error of that call defaults to NEW.
FwSynth(w) ==
    /\ pc[w] = "fw_synth"
    /\ IF wk[w].sim = <<>> \/ (docsTable /\ wk[w].sim[1] \notin 1..Len(docs))
       THEN /\ pc' = [pc EXCEPT ![w] = "w_apply"]
            /\ wk' = [wk EXCEPT ![w].dec = "NEW", ![w].c = wk[w].raw,
                                ![w].sim = <<>>]
       ELSE IF ~docsTable
       THEN /\ pc' = [pc EXCEPT ![w] = "w_failed"]
            /\ wk' = [wk EXCEPT ![w].exc = "no such table"]
       ELSE \E a \in SynthActions, c \in Contents :
               /\ pc' = [pc EXCEPT ![w] = IF a = "KEPT" THEN "w_done" ELSE "w_apply"]
               /\ wk' = [wk EXCEPT
                            ![w].dec = IF a = "error" THEN "NEW" ELSE a,
                            ![w].c = IF a = "UPDATE" THEN c
                                     ELSE IF a = "KEPT" THEN "-" ELSE wk[w].raw,
                            ![w].tid = IF a = "UPDATE" THEN wk[w].sim[1] ELSE 0,
                            ![w].sim = <<>>]
    /\ UNCHANGED <<dbVars, fileVars, lock, facVars, loc, res, orphan, nops, auxVars>>

\* ------------------------------------------------------------- agent graph
\* graph.py: a message is kept by its kind: "S" a SystemMessage holding
\* retrieved context, "H" a HumanMessage, "A" an AIMessage with content,
\* "C" an AIMessage with tool calls (and no content), "T" the ToolMessage
\* answering one, "E" an AIMessage with neither content nor tool calls.
\* graph.queue tells whether the graph was built with a task queue, and
\* graph.enq is the history of the run: the calls of enqueue_task, each as
\* the positions of the two messages whose contents it was given.
InputKinds == {"S", "H", "A"}

\* Position of the last message of a kind (messages[-1] of a filtered list).
LastOf(ms, kind) ==
    CHOOSE i \in 1..Len(ms) : ms[i] = kind /\ \A j \in (i + 1)..Len(ms) : ms[j] # kind

CountKind(ms, kind) == Cardinality({i \in 1..Len(ms) : ms[i] = kind})

\* The message lists a caller passes to graph.invoke: a conversation so
\* far, holding at most one SystemMessage (that of an earlier run).
Inputs ==
    {ms \in UNION {[1..n -> InputKinds] : n \in 1..MaxMsgs} :
        CountKind(ms, "S") <= 1}

\* graph.invoke(state): the entry point is the curator (graph.py 166). The
\* run is made by the request thread, between two of its facade calls, and
\* has room in the queue for the task it enqueues.
GraphInvoke ==
    /\ graph.node = "END" /\ pc["c1"] = "idle"
    /\ Len(tasks) < MaxTasks
    /\ \E ms \in Inputs, tq \in BOOLEAN :
          graph' = [node |-> "curator", messages |-> ms, queue |-> tq,
                    enq |-> <<>>]
    /\ UNCHANGED <<dbVars, fileVars, lock, facVars, pc, loc, res, wk, orphan,
                   nops, running, appVars>>

\* graph.py 67-126, curator_node: without a HumanMessage (70-71), or when
\* the intent analysis or the search raises (124-126), messages are left as
\* they are; otherwise memory.search(query) is called with the default k
\* and, when it returns documents, one SystemMessage is put in front of the
\* messages (91, 122). The fast path (76-92) differs in the query only.
CuratorNode ==
    /\ graph.node = "curator"
    /\ \/ /\ graph' = [graph EXCEPT !.node = "agent"]
          /\ UNCHANGED facVars
       \/ /\ "H" \in Range(graph.messages)
          /\ \E q \in Queries :
                LET idx == SearchIndex("f1")
                    found == SearchResult(idx, docs, q, DefaultK,
                                          DISTANCE_THRESHOLD, docsTable)
                IN /\ graph' = [graph EXCEPT
                                   !.node = "agent",
                                   !.messages = IF found # <<>>
                                                THEN <<"S">> \o graph.messages
                                                ELSE graph.messages]
                   /\ index' = [index EXCEPT !["f1"] = idx]
                   /\ lastMtime' = [lastMtime EXCEPT !["f1"] =
                                       IF Stale("f1") THEN idxMtime ELSE @]
    /\ UNCHANGED <<dbVars, fileVars, lock, pc, loc, res, wk, orphan, nops,
                   running, appVars>>

\* graph.py 128-134 and 170-177, agent_node and check_tool_call: the answer
\* (or the error text) is appended; an answer with tool calls leads to the
\* tool executor, any other to the reflector.
AgentNode ==
    /\ graph.node = "agent"
    /\ \/ \E reply \in {"A", "E"} :
             graph' = [graph EXCEPT !.node = "reflector",
                                    !.messages = Append(graph.messages, reply)]
       \/ /\ Len(graph.messages) <= MaxMsgs + 1
          /\ graph' = [graph EXCEPT !.node = "tool_executor",
                                    !.messages = Append(graph.messages, "C")]
    /\ UNCHANGED <<dbVars, fileVars, lock, facVars, pc, loc, res, wk, orphan,
                   nops, running, appVars>>

\* graph.py 50-53, tool_executor_node: the tool's answer is appended and the
\* agent runs again.
ToolNode ==
    /\ graph.node = "tool_executor"
    /\ graph' = [graph EXCEPT !.node = "agent",
                              !.messages = Append(graph.messages, "T")]
    /\ UNCHANGED <<dbVars, fileVars, lock, facVars, pc, loc, res, wk, orphan,
                   nops, running, appVars>>

\* Whether reflector_node reaches its call of enqueue_task (137-143).
Reflects == graph.queue /\ {"H", "A"} \subseteq Range(graph.messages)

\* A reflector that hands over the first human message.
ReflectorNodeFirstHuman ==
    /\ graph.node = "reflector"
    /\ graph' = [graph EXCEPT
                    !.node = "END",
                    !.enq = IF Reflects
                            THEN Append(@, <<CHOOSE i \in 1..Len(graph.messages) :
                                                /\ graph.messages[i] = "H"
                                                /\ \A j \in 1..(i - 1) :
                                                      graph.messages[j] # "H",
                                             LastOf(graph.messages, "A")>>)
                            ELSE @]
    /\ tasks' = IF Reflects /\ taskTable THEN Append(tasks, NewTask) ELSE tasks
    /\ UNCHANGED <<docs, docsTable, taskTable, fileVars, lock, facVars, pc, loc,
                   res, wk, orphan, nops, running, appVars>>

\* graph.py 136-155, reflector_node: without a task queue nothing is done;
\* with a HumanMessage and an AIMessage with content the last of each is
\* enqueued (an exception of enqueue_task is caught); messages are not
\* changed.
ReflectorNode ==
    /\ graph.node = "reflector"
    /\ graph' = [graph EXCEPT
                    !.node = "END",
                    !.enq = IF Reflects
                            THEN Append(@, <<LastOf(graph.messages, "H"),
                                             LastOf(graph.messages, "A")>>)
                            ELSE @]
    /\ tasks' = IF Reflects /\ taskTable THEN Append(tasks, NewTask) ELSE tasks
    /\ UNCHANGED <<docs, docsTable, taskTable, fileVars, lock, facVars, pc, loc,
                   res, wk, orphan, nops, running, appVars>>

GraphStep == GraphInvoke \/ CuratorNode \/ AgentNode \/ ToolNode \/ ReflectorNode

\* ------------------------------------------------- app.get_session_agent
\* The store, the queue and the worker of a session use files of their own
\* (ace_memory_<session id>), apart from those of any other session.
SessUnchanged ==
    UNCHANGED <<dbVars, fileVars, lock, facVars, pc, loc, res, wk, orphan, nops,
                running, graph, emb, stm>>

\* app.py 51-55, isolated mode: get_session_agent(session_id) tests
\* "session_id not in agent_sessions"; no lock is taken.
SessCheck(t) ==
    /\ sess.at[t] = "idle" /\ sess.calls < MaxCalls
    /\ \E s \in SessionIds :
          sess' = [sess EXCEPT
                      !.at[t] = IF sess.map[s] = 0 THEN "construct" ELSE "return",
                      !.sid[t] = s, !.calls = @ + 1]
    /\ SessUnchanged

\* app.py 56-67: the llm client, ACE_Memory, TaskQueue, the agent graph and
\* the BackgroundWorker of the session are constructed and the worker is
\* started.
SessConstruct(t) ==
    /\ sess.at[t] = "construct"
    /\ sess' = [sess EXCEPT !.built[sess.sid[t]] = @ + 1,
                            !.mine[t] = sess.built[sess.sid[t]] + 1,
                            !.at[t] = "store"]
    /\ SessUnchanged

\* app.py 69-74: agent_sessions[session_id] = {...}.
SessStore(t) ==
    /\ sess.at[t] = "store"
    /\ sess' = [sess EXCEPT !.map[sess.sid[t]] = sess.mine[t],
                            !.mine[t] = 0, !.at[t] = "return"]
    /\ SessUnchanged

\* app.py 75: return agent_sessions[session_id].
SessReturn(t) ==
    /\ sess.at[t] = "return"
    /\ sess' = [sess EXCEPT !.rets[sess.sid[t]] = @ \cup {sess.map[sess.sid[t]]},
                            !.sid[t] = "-", !.at[t] = "idle"]
    /\ SessUnchanged

SessStep(t) == SessCheck(t) \/ SessConstruct(t) \/ SessStore(t) \/ SessReturn(t)

\* ------------------------------------- embedding_manager.get_embedding_model
EmbUnchanged ==
    UNCHANGED <<dbVars, fileVars, lock, facVars, pc, loc, res, wk, orphan, nops,
                running, graph, sess, stm>>

\* embedding_manager.py 22: the first test of _model, made without the
\* lock.
EmbCheck(t) ==
    /\ emb.at[t] = "idle"
    /\ emb' = [emb EXCEPT !.at[t] = IF emb.model = 0 THEN "lock" ELSE "return"]
    /\ EmbUnchanged

\* embedding_manager.py 23: with _lock, entered when the lock is free.
EmbAcquire(t) ==
    /\ emb.at[t] = "lock" /\ emb.holder = "-"
    /\ emb' = [emb EXCEPT !.holder = t, !.at[t] = "locked"]
    /\ EmbUnchanged

\* A body of the with block that constructs without testing _model again.
EmbSecondUnchecked(t) ==
    /\ emb.at[t] = "locked"
    /\ emb' = [emb EXCEPT !.built = @ + 1, !.model = emb.built + 1,
                          !.holder = "-", !.at[t] = "return"]
    /\ EmbUnchanged

\* embedding_manager.py 25-26: the second test, under the lock, and the
\* construction when _model is still None; the lock is released on the
\* way out.
EmbSecond(t) ==
    /\ emb.at[t] = "locked"
    /\ emb' = IF emb.model = 0
              THEN [emb EXCEPT !.built = @ + 1, !.model = emb.built + 1,
                               !.holder = "-", !.at[t] = "return"]
              ELSE [emb EXCEPT !.holder = "-", !.at[t] = "return"]
    /\ EmbUnchanged

\* embedding_manager.py 26: SentenceTransformer(...) raises (the model
\* cannot be loaded); _model stays None, the with block releases the lock
\* and the exception reaches the caller.
EmbConstructFail(t) ==
    /\ emb.at[t] = "locked" /\ emb.model = 0
    /\ emb' = [emb EXCEPT !.holder = "-", !.at[t] = "idle"]
    /\ EmbUnchanged

\* embedding_manager.py 27: return _model.
EmbReturn(t) ==
    /\ emb.at[t] = "return"
    /\ emb' = [emb EXCEPT !.rets = @ \cup {emb.model}, !.at[t] = "idle"]
    /\ EmbUnchanged

EmbStep(t) ==
    \/ EmbCheck(t) \/ EmbAcquire(t) \/ EmbSecond(t) \/ EmbConstructFail(t)
    \/ EmbReturn(t)

\* ------------------------------------------------- stm_manager.apply_diff
\* str.upper, on the symbols of an op type.
Upper(str) ==
    [i \in 1..Len(str) |->
        IF str[i] = "add_constraint" THEN "ADD_CONSTRAINT" ELSE str[i]]

\* str.strip
RECURSIVE Strip(_)
Strip(str) ==
    IF str = <<>> THEN <<>>
    ELSE IF Head(str) = " " THEN Strip(Tail(str))
    ELSE IF str[Len(str)] = " " THEN Strip(SubSeq(str, 1, Len(str) - 1))
    ELSE str

\* stm_manager.py 53-56: content[1:-1] when content starts and ends with
\* the quote q (a content that is one quote, which does both, is emptied).
Unquote(str, q) ==
    IF str # <<>> /\ str[1] = q /\ str[Len(str)] = q
    THEN SubSeq(str, 2, Len(str) - 1)
    ELSE str

\* Position of the first colon of op, 0 without one.
Colon(op) ==
    IF \E i \in 1..Len(op) : op[i] = ":"
    THEN CHOOSE i \in 1..Len(op) : op[i] = ":" /\ \A j \in 1..(i - 1) : op[j] # ":"
    ELSE 0

\* stm_manager.py 48-56: op.split(":", 1) unpacked into two names raises
\* ValueError without a colon (ok is FALSE); otherwise the type is
\* stripped and upper-cased and the content stripped and unquoted.
Parse(op) ==
    IF Colon(op) = 0 THEN [ok |-> FALSE, kind |-> <<>>, content |-> <<>>]
    ELSE [ok |-> TRUE,
          kind |-> Upper(Strip(SubSeq(op, 1, Colon(op) - 1))),
          content |-> Unquote(Unquote(Strip(SubSeq(op, Colon(op) + 1, Len(op))),
                                      "dq"), "sq")]

\* A value under a key of the model dict: kind "absent" (no such key),
\* "list", "dict" (items are its keys) or "other" (any other object).
Absent == [kind |-> "absent", items |-> <<>>]
Other == [kind |-> "other", items |-> <<>>]
ListOf(items) == [kind |-> "list", items |-> items]
DictOf(items) == [kind |-> "dict", items |-> items]

Without(items, c) == SelectSeq(items, LAMBDA e : e # c)

\* stm_manager.py 23-34: new_model = current_model.copy() is a shallow
\* copy, so each value of new is the same object as the value of cur under
\* that key (alias) until the key is bound to a new object: missing keys
\* get a fresh [] or {}, constraints that is not a list a fresh [].
Copied(m) ==
    [new |-> [constraints |-> IF m.constraints.kind = "list" THEN m.constraints
                              ELSE ListOf(<<>>),
              actions |-> IF m.actions.kind = "absent" THEN ListOf(<<>>)
                          ELSE m.actions,
              entities |-> IF m.entities.kind = "absent" THEN DictOf(<<>>)
                           ELSE m.entities],
     cur |-> m,
     alias |-> [constraints |-> m.constraints.kind = "list",
                actions |-> m.actions.kind # "absent",
                entities |-> m.entities.kind # "absent"]]

\* list.append on the object under key f of new: seen through cur as well
\* when both dicts hold the same object.
AppendTo(h, f, c) ==
    [h EXCEPT !.new[f].items = Append(@, c),
              !.cur[f].items = IF h.alias[f] THEN Append(@, c) ELSE @]

\* apply_diff without the membership tests of lines 59 and 68: every
\* ADD_CONSTRAINT and MODIFY_ACTION op appends its content.
ApplyOpAlwaysAppends(h, op) ==
    LET p == Parse(op)
        c == p.content
    IN IF ~p.ok THEN h
       ELSE IF p.kind = <<"ADD_CONSTRAINT">>
       THEN AppendTo(h, "constraints", c)
       ELSE IF p.kind = <<"MODIFY_ACTION">>
       THEN IF h.new.actions.kind = "list"
            THEN AppendTo(h, "actions", c)
            ELSE h
       ELSE IF p.kind = <<"DROP_ENTITY">>
       THEN IF h.new.entities.kind = "list"
            THEN [h EXCEPT !.new.entities.items = Without(@, c),
                           !.alias.entities = FALSE]
            ELSE IF h.new.entities.kind = "dict"
            THEN [h EXCEPT !.new.entities.items = Without(@, c),
                           !.cur.entities.items =
                               IF h.alias.entities THEN Without(@, c) ELSE @]
            ELSE h
       ELSE h

\* stm_manager.py 46-81: one op applied; an op that cannot be split is
\* skipped (79-81). ADD_CONSTRAINT and MODIFY_ACTION
\* append in place when the content is not in the list; DROP_ENTITY binds
\* entities to a new filtered list, or deletes the key of a dict in place.
ApplyOp(h, op) ==
    LET p == Parse(op)
        c == p.content
    IN IF ~p.ok THEN h
       ELSE IF p.kind = <<"ADD_CONSTRAINT">>
       THEN IF c \in Range(h.new.constraints.items) THEN h
            ELSE AppendTo(h, "constraints", c)
       ELSE IF p.kind = <<"MODIFY_ACTION">>
       THEN IF h.new.actions.kind = "list" /\ c \notin Range(h.new.actions.items)
            THEN AppendTo(h, "actions", c)
            ELSE h
       ELSE IF p.kind = <<"DROP_ENTITY">>
       THEN IF h.new.entities.kind = "list"
            THEN [h EXCEPT !.new.entities.items = Without(@, c),
                           !.alias.entities = FALSE]
            ELSE IF h.new.entities.kind = "dict"
            THEN [h EXCEPT !.new.entities.items = Without(@, c),
                           !.cur.entities.items =
                               IF h.alias.entities THEN Without(@, c) ELSE @]
            ELSE h
       ELSE h

\* stm_manager.py 46-81: the ops applied in order.
RECURSIVE ApplyOps(_, _)
ApplyOps(h, ops) ==
    IF ops = <<>> THEN h ELSE ApplyOps(ApplyOp(h, Head(ops)), Tail(ops))

\* stm_manager.py 4-83, apply_diff(current_model, diff_ops): new is the dict
\* returned and cur is current_model as the caller finds it afterwards.
ApplyDiff(m, ops) == ApplyOps(Copied(m), ops)

\* A chat turn applies the ops the curator produced to the model of the
\* session.
ApplyDiffCall ==
    /\ ~stm.called
    /\ stm' = [called |-> TRUE, model |-> stm.model, ops |-> stm.ops,
               out |-> ApplyDiff(stm.model, stm.ops).new,
               after |-> ApplyDiff(stm.model, stm.ops).cur]
    /\ UNCHANGED <<dbVars, fileVars, lock, facVars, pc, loc, res, wk, orphan,
                   nops, running, graph, sess, emb>>

\* ---------------------------------------------------------- specifications
\* Steps of a call to the facade that is in progress on thread t.
WriteStep(t) ==
    \/ AddEncodeFail(t) \/ AddLock(t) \/ AddWrite(t)
    \/ UpdateEncodeFail(t) \/ UpdateLock(t) \/ UpdateWrite(t)

BatchStep(t) == BatchEncodeFail(t) \/ BatchLock(t) \/ BatchWrite(t)

InitStep(t) == InitDb(t) \/ InitLock(t) \/ InitLoad(t)

RebuildStep(t) == InitRebuild(t) \/ InitRebuildFail(t)

SearchStep(t) == SearchReload(t) \/ SearchEval(t) \/ SearchEncodeFail(t)

ClientStep(t) ==
    \/ ClientAdd(t) \/ ClientUpdate(t) \/ ClientClear(t)
    \/ ClientSearch(t) \/ ClientSimilar(t)

\* process_task of background.py and the memory calls it makes.
ProcessStep(w) ==
    \/ WorkerMarkProcessing(w)
    \/ WorkerSimilar(w) \/ WorkerSimilarEncodeFail(w)
    \/ WorkerOracle(w) \/ WorkerApply(w)
    \/ WorkerMarkDone(w) \/ WorkerMarkFailed(w)
    \/ WriteStep(w) \/ SimilarBody(w)

WorkerStep(w) == WorkerFetch(w) \/ ProcessStep(w)

\* run() with its loop condition tested apart from the fetch.
LoopStep(w) == LoopCheck(w) \/ LoopFetch(w) \/ ProcessStep(w)

\* run() on a database whose reads can fail.
FaultyLoopStep(w) == LoopStep(w) \/ LoopFetchFail(w)

FwStep(w) ==
    \/ WorkerFetch(w) \/ WorkerMarkProcessing(w)
    \/ FwOracle(w) \/ FwSimilar(w) \/ FwSimilarEncodeFail(w) \/ FwSynth(w)
    \/ WorkerApply(w) \/ WorkerMarkDone(w) \/ WorkerMarkFailed(w)
    \/ WriteStep(w) \/ SimilarBody(w)

\* Two worker loops polling the same queue, each with its own facade; a
\* request thread only enqueues.
NextWorkers ==
    \/ EnqueueTask("c1")
    \/ \E w \in Workers : WorkerStep(w)

SpecWorkers == Init /\ [][NextWorkers]_vars

\* Shared mode of app.py: the worker thread and a request thread use the
\* same facade object; the request thread searches, enqueues and resets.
NextShared ==
    \/ ClientSearch("c1") \/ ClientSimilar("c1") \/ ClientClear("c1")
    \/ EnqueueTask("c1")
    \/ SearchEval("c1") \/ SearchEncodeFail("c1") \/ SimilarBody("c1")
    \/ InitStep("c1") \/ RebuildStep("c1")
    \/ WorkerStep("w1") \/ WorkerCandidateFail("w1")

SpecShared == Init /\ [][NextShared]_vars

\* Two facades over the same files, each called directly by its thread:
\* c1 writes and resets through f1, c2 adds and reads through f2.
NextFacades ==
    \/ ClientAdd("c1") \/ ClientUpdate("c1") \/ ClientClear("c1")
    \/ WriteStep("c1") \/ InitStep("c1") \/ RebuildStep("c1")
    \/ ClientAdd("c2") \/ ClientSearch("c2") \/ ClientSimilar("c2")
    \/ WriteStep("c2") \/ SearchStep("c2") \/ SimilarBody("c2")

SpecFacades == Init /\ [][NextFacades]_vars

\* One facade used by one thread: calls run one after the other (the
\* facade's own writes keep its recorded mtime current, so its searches
\* never reload).
NextSeq ==
    \/ ClientStep("c1") \/ ClientSearchMalformed("c1") \/ ClientSearchMixed("c1")
    \/ WriteStep("c1") \/ InitStep("c1")
    \/ SearchEval("c1") \/ SearchEncodeFail("c1") \/ SimilarBody("c1")

SpecSeq == Init /\ [][NextSeq]_vars

\* One process whose facade is constructed again between calls, over an
\* index file that may have been deleted or damaged in the meantime.
NextRebuild ==
    \/ ClientAdd("c1") \/ ClientUpdate("c1") \/ ClientConstruct("c1")
    \/ WriteStep("c1") \/ UpdateReadFail("c1")
    \/ InitStep("c1") \/ RebuildStep("c1")
    \/ IndexFileRemoved \/ IndexFileCorrupted

SpecRebuild == InitStored /\ [][NextRebuild]_vars

\* A script that fills the store through one facade, item by item, in
\* batches, and replacing documents, one call after the other.
NextBatch ==
    \/ ClientAdd("c1") \/ ClientAddBatch("c1") \/ ClientUpdate("c1")
    \/ WriteStep("c1") \/ BatchStep("c1")

SpecBatch == Init /\ [][NextBatch]_vars

\* A request thread that stores documents through the facade and runs the
\* agent graph, one after the other (as tests/test_graph_logic.py does).
NextAgent ==
    \/ graph.node = "END" /\ ClientAdd("c1")
    \/ AddLock("c1") \/ AddWrite("c1")
    \/ GraphStep

SpecAgent == Init /\ [][NextAgent]_vars

\* Two processes, each with its own facade over the same files, that only
\* add.
NextAdders ==
    \E t \in Clients :
        ClientAdd(t) \/ AddEncodeFail(t) \/ AddLock(t) \/ AddWrite(t)

SpecAdders == Init /\ [][NextAdders]_vars

\* One worker of background.py with its own facade; a request thread only
\* enqueues, so every change of the store is made by the worker.
NextSolo ==
    \/ EnqueueTask("c1")
    \/ WorkerStep("w1")

SpecSolo == Init /\ [][NextSolo]_vars

\* One worker of background.py that is stopped at some point by the
\* application, which goes on enqueueing; the worker thread keeps being
\* scheduled and the calls it makes return.
NextStop ==
    \/ EnqueueTask("c1")
    \/ WorkerStop("w1")
    \/ LoopStep("w1")

SpecStop == Init /\ [][NextStop]_vars /\ WF_vars(LoopStep("w1"))

\* One worker of background.py with its own facade, whose oracle also
\* answers with actions the prompt does not name.
NextActions ==
    \/ EnqueueTask("c1")
    \/ WorkerStep("w1")
    \/ WorkerOracleOther("w1")

SpecActions == Init /\ [][NextActions]_vars

\* One worker of background.py that nobody stops, on a database whose reads
\* can fail a bounded number of times; the application goes on enqueueing
\* and the worker thread keeps being scheduled.
NextLoop ==
    \/ EnqueueTask("c1")
    \/ FaultyLoopStep("w1")

SpecLoop == Init /\ [][NextLoop]_vars /\ WF_vars(FaultyLoopStep("w1"))

\* Isolated mode of app.py: two request threads of the server call
\* get_session_agent, for the same session id or for different ones.
NextSessions == \E t \in Clients : SessStep(t)

SpecSessions == Init /\ [][NextSessions]_vars

\* Four threads of one process, each constructing facades and so calling
\* get_embedding_model any number of times.
NextEmbedding == \E t \in Callers : EmbStep(t)

SpecEmbedding == Init /\ [][NextEmbedding]_vars

\* One call of apply_diff, on any model and any op list.
NextDiff == ApplyDiffCall

SpecDiff == InitDiff /\ [][NextDiff]_vars

\* One worker of ace_framework.py; a request thread only enqueues.
NextFramework ==
    \/ EnqueueTask("c1")
    \/ FwStep("w3")

SpecFramework == Init /\ [][NextFramework]_vars

\* A script that adds and updates through its facade f1 and lets the worker
\* of another process (facade f2) reflect on the tasks it enqueues, one call
\* at a time: it starts a call only while the worker is between two tasks,
\* and the worker fetches a task only while no call of the script is
\* running.
NextMixed ==
    \/ EnqueueTask("c1")
    \/ pc["w2"] = "idle" /\ (ClientAdd("c1") \/ ClientUpdate("c1") \/ WriteStep("c1"))
    \/ pc["c1"] = "idle" /\ WorkerStep("w2")

SpecMixed == Init /\ [][NextMixed]_vars

\* ------------------------------------------------------------------ claims
AllIdle == \A t \in Threads : pc[t] = "idle"

Rows == 1..Len(docs)

\* C1: once every add, update_document and clear issued so far has
\* returned, the ids of the documents table are the ids of the persisted
\* index and each id has exactly one vector.
C1_RowsMatchVectors ==
    (AllIdle /\ orphan = {}) =>
        /\ VecIds(idxFile) = Rows
        /\ \A id \in Rows : CountId(idxFile, id) = 1

\* C2: a task's status only moves pending -> processing -> done or failed,
\* and a done or failed task never changes status again.
C2_TaskTransitions ==
    [][\A i \in 1..Len(tasks) :
          i <= Len(tasks') =>
             \/ tasks'[i].status = tasks[i].status
             \/ <<tasks[i].status, tasks'[i].status>> \in
                   {<<"pending", "processing">>, <<"processing", "done">>,
                    <<"processing", "failed">>}]_vars

\* C3: each task is claimed by at most one worker and yields at most one
\* memory mutation.
C3_SingleClaim ==
    \A i \in 1..Len(tasks) :
        Cardinality(tasks[i].by) <= 1 /\ tasks[i].muts <= 1

InWrite(t) == pc[t] \in {"add_locked", "upd_locked", "init_locked"}

\* C4: every step that changes or removes the index file is taken by a
\* thread holding the lock, and no two threads are inside a
\* read-modify-write of the file at once.
C4_LockDiscipline ==
    [][/\ <<idxExists, idxFile>>' # <<idxExists, idxFile>> =>
              \E t \in Threads : HoldsLock(t) /\ pc'[t] # pc[t]
       /\ Cardinality({t \in Threads : InWrite(t)}) <= 1]_vars

\* update_document on facade f is between remove_ids and add_with_ids of
\* the id of a document that has a vector in the persisted index.
InWindow(f) ==
    \E u \in Threads :
        /\ Fac(u) = f /\ pc[u] = "upd_locked"
        /\ loc[u].id \in Rows
        /\ loc[u].id \in VecIds(idxFile)
        /\ loc[u].id \notin VecIds(index[f])

Evaluates(t) ==
    \/ pc[t] = "srch_eval" /\ pc'[t] # "srch_eval"
    \/ pc[t] = "fsv_lock" /\ pc'[t] # "fsv_lock"

\* C5: no search or find_similar_vectors is evaluated on an index from
\* which update_document has removed the old vector of an id and not yet
\* added the new one.
C5_NoUpdateWindow ==
    [][\A t \in Threads : Evaluates(t) => ~InWindow(Fac(t))]_vars

\* C6: the content of a row whose add raised after the insert is returned
\* by no later search (when no other row holds the same content).
C6_FailedAddInvisible ==
    [][\A t \in Threads :
          (pc[t] = "srch_eval" /\ pc'[t] = "idle" /\ res'[t] = Returned) =>
             \A id \in orphan \cap Rows :
                (\A j \in Rows \ {id} : docs[j] # docs[id]) =>
                    docs[id] \notin Range(SearchOutput(t))]_vars

C8_FreshFacadeAgrees ==
    pc["c1"] = "idle" =>
        \A q \in Queries, k \in 1..MaxK :
            SearchResult(SearchIndex("f1"), docs, q, k, DISTANCE_THRESHOLD, TRUE)
              = SearchResult(LoadOrBuild, docs, q, k, DISTANCE_THRESHOLD, TRUE)

\* C8 witness: after an add and an update_document of the added row, a
\* paraphrase query is answered from the vector phase alone.
C8_Witness ==
    /\ pc["c1"] = "idle" /\ nops = 2 /\ docs = <<"a">>
    /\ idxFile = << <<1, "a">> >> /\ clock = 3
    /\ SearchResult(SearchIndex("f1"), docs, "sa", 1, DISTANCE_THRESHOLD, TRUE) = <<"a">>
    /\ LexicalPhase(docs, "sa", 1) = <<>>

\* C9: a task in status processing is being processed by a worker (none is
\* left in processing by a process_task that has ended).
C9_NoStuckProcessing ==
    \A i \in 1..Len(tasks) :
        tasks[i].status = "processing" =>
            \E w \in Workers :
                wk[w].task = i /\ pc[w] \notin {"idle", "w_fetched"}

HasTask(w) == taskTable /\ wk[w].task \in 1..Len(tasks)

\* C11: in the worker of background.py, after an empty, unparsable or
\* should_store = false answer every step of process_task leaves the
\* documents and the index file as they are, and process_task ends by
\* marking the task done, with no memory call made for it.
C11_UnusableAnswer ==
    [][\A w \in Workers :
          (wk[w].dec \in {"empty", "badjson", "nostore"} /\ pc'[w] # pc[w]) =>
             /\ pc[w] = "w_done" /\ pc'[w] = "idle"
             /\ docs' = docs /\ idxFile' = idxFile /\ idxExists' = idxExists
             /\ HasTask(w) =>
                   /\ tasks'[wk[w].task].status = "done"
                   /\ tasks'[wk[w].task].muts = 0
                   /\ ~tasks'[wk[w].task].dirty]_vars

\* C11 witness: over a store that holds a document, the oracle has given an
\* unparsable answer for a task in processing and process_task is at
\* mark_task_complete.
C11_Witness ==
    /\ pc["w1"] = "w_done" /\ wk["w1"].dec = "badjson"
    /\ HasTask("w1") /\ tasks[wk["w1"].task].status = "processing"
    /\ docs # <<>> /\ idxFile # <<>>

\* C12: in the worker of ace_framework.py, after an answer that is not
\* valid JSON process_task ends by marking the task failed with an error
\* message, and no step of it adds or changes a document or a vector.
C12_FwInvalidJson ==
    [][\A w \in FwWorkers :
          (wk[w].dec = "badjson" /\ pc'[w] # pc[w]) =>
             /\ pc[w] = "w_failed" /\ pc'[w] = "idle"
             /\ docs' = docs /\ idxFile' = idxFile
             /\ HasTask(w) =>
                   /\ tasks'[wk[w].task].status = "failed"
                   /\ tasks'[wk[w].task].err # "-"
                   /\ tasks'[wk[w].task].muts = 0]_vars

\* C12 witness: a task of the ace_framework.py worker failed by a JSON
\* error, with no memory call made for it.
C12_Witness ==
    /\ pc["w3"] = "idle"
    /\ \E i \in 1..Len(tasks) :
          /\ tasks[i].status = "failed" /\ tasks[i].err = "json error"
          /\ tasks[i].by = {"w3"} /\ tasks[i].muts = 0

\* C13: no task in status failed has had a row inserted or changed on its
\* behalf.
C13_FailedLeavesNothing ==
    \A i \in 1..Len(tasks) : tasks[i].status = "failed" => ~tasks[i].dirty

\* C14: after the decision KEPT every step of process_task leaves the
\* documents and the index file as they are, and process_task ends by
\* marking the task done, with no memory call made for it.
C14_KeptChangesNothing ==
    [][\A w \in Workers :
          (wk[w].dec = "KEPT" /\ pc'[w] # pc[w]) =>
             /\ pc[w] = "w_done" /\ pc'[w] = "idle"
             /\ docs' = docs /\ Len(docs') = Len(docs)
             /\ idxFile' = idxFile /\ idxExists' = idxExists
             /\ HasTask(w) =>
                   /\ tasks'[wk[w].task].status = "done"
                   /\ tasks'[wk[w].task].muts = 0]_vars

\* C14 witness: over a store that holds a document, the oracle decided KEPT
\* for a task in processing and process_task is at mark_task_complete.
C14_Witness ==
    /\ pc["w1"] = "w_done" /\ wk["w1"].dec = "KEPT"
    /\ HasTask("w1") /\ tasks[wk["w1"].task].status = "processing"
    /\ docs # <<>>

\* The content process_task hands to the memory: the structuring output, or
\* the raw analysis when the structuring call raised or returned nothing.
Expected(w) == IF wk[w].sout \in Contents THEN wk[w].sout ELSE wk[w].raw

\* C15: for the decision UPDATE with a target that has a row, the call of
\* update_document sets the row's content to the structured analysis and
\* changes no other row; its write of the index leaves the number of
\* vectors as it was, with exactly one vector for the target, that of the
\* new content; process_task ends by marking the task done.
C15_UpdateExisting ==
    [][\A w \in Workers :
          (wk[w].dec = "UPDATE" /\ pc'[w] # pc[w]) =>
             /\ (pc[w] = "w_apply" /\ wk[w].tid \in Rows) =>
                   /\ pc'[w] = "upd_enc"
                   /\ docs' = [docs EXCEPT ![wk[w].tid] = Expected(w)]
                   /\ idxFile' = idxFile
             /\ (pc[w] = "upd_locked" /\ loc[w].id \in Rows) =>
                   /\ pc'[w] = "w_done"
                   /\ docs' = docs /\ docs[loc[w].id] = loc[w].c
                   /\ Len(idxFile') = Len(idxFile)
                   /\ CountId(idxFile', loc[w].id) = 1
                   /\ <<loc[w].id, loc[w].c>> \in Range(idxFile')
             /\ (pc[w] = "w_done" /\ HasTask(w)) =>
                   tasks'[wk[w].task].status = "done"]_vars

\* C16: for the decision UPDATE with a target that has no row, no step of
\* process_task changes a document or the index file.
C16_UpdateNeedsTarget ==
    [][\A w \in Workers :
          (/\ wk[w].dec = "UPDATE" /\ pc'[w] # pc[w]
           /\ \/ pc[w] = "w_apply" /\ wk[w].tid # 0 /\ wk[w].tid \notin Rows
              \/ pc[w] \in {"upd_enc", "upd_locked"} /\ loc[w].id \notin Rows) =>
             docs' = docs /\ idxFile' = idxFile]_vars

\* C17: for the decision NEW, the call of add appends one row holding the
\* structuring output (the raw analysis when structuring raised or returned
\* nothing), its write of the index appends one vector for that row, no
\* other step of process_task changes a document or a vector, and
\* process_task ends by marking the task done after that one memory call.
C17_NewAddsOne ==
    [][\A w \in Workers :
          (wk[w].dec = "NEW" /\ pc'[w] # pc[w]) =>
             /\ pc[w] \in {"w_apply", "add_enc", "add_locked", "w_done", "w_failed"}
             /\ pc[w] = "w_apply" =>
                   /\ pc'[w] = "add_enc"
                   /\ docs' = Append(docs, Expected(w))
                   /\ loc'[w].id = Len(docs) + 1
                   /\ idxFile' = idxFile
             /\ pc[w] = "add_enc" => docs' = docs /\ idxFile' = idxFile
             /\ pc[w] = "add_locked" =>
                   /\ pc'[w] = "w_done"
                   /\ docs' = docs
                   /\ idxFile' = Append(idxFile, <<loc[w].id, docs[loc[w].id]>>)
             /\ pc[w] \in {"w_done", "w_failed"} =>
                   docs' = docs /\ idxFile' = idxFile
             /\ (pc[w] = "w_done" /\ HasTask(w)) =>
                   /\ tasks'[wk[w].task].status = "done"
                   /\ tasks'[wk[w].task].muts = 1]_vars

\* C17 witness: for the decision NEW the add has returned, the store holds
\* the one row with its one vector, and process_task is at
\* mark_task_complete.
C17_Witness ==
    /\ pc["w1"] = "w_done" /\ wk["w1"].dec = "NEW"
    /\ HasTask("w1") /\ tasks[wk["w1"].task].muts = 1
    /\ Len(docs) = 1 /\ idxFile = << <<1, docs[1]>> >>

\* C18: a fetch returns a task that is pending and has the smallest id of
\* the pending tasks (so none of another status, and none from a queue
\* without a pending task), and a task in processing that no worker is
\* working on stays in processing.
C18_FetchOldestPending ==
    [][\A w \in Workers :
          /\ (pc[w] = "idle" /\ pc'[w] = "w_fetched") =>
                /\ wk'[w].task \in 1..Len(tasks)
                /\ tasks[wk'[w].task].status = "pending"
                /\ \A j \in 1..(wk'[w].task - 1) : tasks[j].status # "pending"
          /\ \A i \in 1..Len(tasks) :
                (tasks[i].status = "processing"
                    /\ \A v \in Workers : wk[v].task # i) =>
                   (i <= Len(tasks') /\ tasks'[i].status = "processing")]_vars

\* C18 witness: task 1 was left in processing by a process_task that
\* ended, and the worker has fetched task 2.
C18_Witness ==
    /\ Len(tasks) = 2 /\ tasks[1].status = "processing"
    /\ pc["w1"] = "w_fetched" /\ wk["w1"].task = 2
    /\ tasks[2].status = "pending"

\* C19: in every state of the store, for every query and every k >= 1, the
\* result of search has at most k elements and no element twice.
C19_AtMostKDistinct ==
    \A q \in Queries, k \in 1..MaxK :
        LET r == SearchResult(index["f1"], docs, q, k, DISTANCE_THRESHOLD, docsTable)
        IN /\ Len(r) <= k
           /\ \A i, j \in 1..Len(r) : r[i] = r[j] => i = j

\* C19 witness: two rows hold the same content, both have a vector, and a
\* search with k = 2 for that content returns it once.
C19_Witness ==
    /\ pc["c1"] = "idle"
    /\ docs = <<"a", "a">> /\ index["f1"] = << <<1, "a">>, <<2, "a">> >>
    /\ SearchResult(index["f1"], docs, "a", 2, DISTANCE_THRESHOLD, docsTable) = <<"a">>

\* The add that inserted row id has returned normally.
AddCompleted(id) ==
    /\ id \in Rows /\ id \notin orphan
    /\ \A u \in Threads : pc[u] \in {"add_enc", "add_locked"} => loc[u].id # id

\* C20: update_document of a row whose add has returned sets the row's
\* content; its write of the index leaves the number of vectors as it was,
\* with exactly one vector for the id, that of the new content, and from
\* then on a search returns only contents that rows hold.
C20_UpdateReplaces ==
    [][\A t \in Clients :
          /\ (pc[t] = "idle" /\ pc'[t] = "upd_enc" /\ loc'[t].id \in Rows) =>
                docs'[loc'[t].id] = loc'[t].c
          /\ (pc[t] = "upd_locked" /\ pc'[t] # pc[t] /\ AddCompleted(loc[t].id)) =>
                /\ CountId(idxFile', loc[t].id) = 1
                /\ <<loc[t].id, loc[t].c>> \in Range(idxFile')
                /\ Len(idxFile') = Len(idxFile)
                /\ \A q \in Queries, k \in 1..MaxK :
                      Range(SearchResult(index'[Fac(t)], docs', q, k,
                                         DISTANCE_THRESHOLD, TRUE))
                         \subseteq Range(docs')]_vars

\* The persisted index can be read and holds exactly one vector for every
\* document row and none for another id.
PersistedPairs ==
    /\ idxExists /\ idxReadable
    /\ VecIds(idxFile) = Rows
    /\ \A id \in Rows : CountId(idxFile, id) = 1

\* Facade f was constructed over the index file as it is now, or wrote it.
Current(f) == idxExists /\ lastMtime[f] = idxMtime

\* Apart from the rows in new, the persisted index, if it can be read, holds
\* exactly one vector for every row.
PairedBut(new) ==
    idxReadable =>
        /\ VecIds(idxFile) = Rows \ new
        /\ \A id \in Rows \ new : CountId(idxFile, id) = 1

\* C21: a construction that finds the index file absent or unreadable ends
\* with exactly one vector per document row in the facade's index; and when
\* an add, or an update_document of an existing row, returns on a facade
\* constructed over the file as it is (a file that pairs rows and vectors,
\* or one that cannot be read), the persisted index holds exactly one vector
\* per row.
C21_RebuildKeepsPairs ==
    [][\A t \in Clients :
          /\ (/\ pc[t] \in {"init_locked", "init_rebuild"} /\ pc'[t] = "idle"
              /\ res'[t] = Returned /\ ~(idxExists /\ idxReadable)) =>
                index'[Fac(t)] = RebuildVectors(docs)
          /\ (/\ pc[t] = "add_locked" /\ pc'[t] = "idle"
              /\ Current(Fac(t)) /\ PairedBut({loc[t].id})) =>
                PersistedPairs'
          /\ (/\ pc[t] = "upd_locked" /\ pc'[t] = "idle"
              /\ Current(Fac(t)) /\ PairedBut({}) /\ loc[t].id \in Rows) =>
                PersistedPairs']_vars

\* C22: when clear returns on a facade used by one thread, the documents
\* table, the facade's index and the persisted index are empty, every
\* search and find_similar_vectors on it returns [] and raises nothing; and
\* an add on the empty store that returns is found by a search for its
\* content, for every k.
C22_ClearResets ==
    [][\A t \in Clients :
          /\ (pc[t] = "init_locked" /\ pc'[t] = "idle") =>
                /\ res'[t] = Returned
                /\ docs' = <<>> /\ docsTable'
                /\ index'[Fac(t)] = <<>> /\ idxFile' = <<>>
                /\ idxExists' /\ lastMtime'[Fac(t)] = idxMtime'
                /\ \A q \in Queries :
                      /\ SimilarIds(index'[Fac(t)], q, SimilarThreshold) = <<>>
                      /\ \A k \in 1..MaxK :
                            SearchResult(index'[Fac(t)], docs', q, k,
                                         DISTANCE_THRESHOLD, docsTable') = <<>>
          /\ (/\ pc[t] = "add_locked" /\ pc'[t] = "idle"
              /\ Len(docs) = 1 /\ idxFile = <<>>) =>
                /\ lastMtime'[Fac(t)] = idxMtime'
                /\ \A k \in 1..MaxK :
                      loc[t].c \in Range(SearchResult(index'[Fac(t)], docs',
                                                     loc[t].c, k,
                                                     DISTANCE_THRESHOLD,
                                                     docsTable'))]_vars

\* C22 witness: clear has returned (the index file was written again, at
\* time 2) and the add that follows it has inserted its row and holds the
\* lock over the empty index.
C22_Witness ==
    /\ pc["c1"] = "add_locked" /\ nops = 2 /\ clock = 2
    /\ docs = <<"a">> /\ idxFile = <<>> /\ index["f1"] = <<>>
    /\ lastMtime["f1"] = 2

\* C23: the call of ACE_Memory.clear leaves the task table in place and its
\* tasks as they are.
C23_ClearKeepsTasks ==
    [][\A t \in Clients :
          (pc[t] = "idle" /\ pc'[t] = "init_db") =>
             taskTable' = taskTable /\ tasks' = tasks]_vars

\* C24: a search whose query FTS5 cannot parse raises nothing of its own and
\* returns exactly the contents found by the vector phase.
C24_FtsErrorTolerated ==
    \A t \in Clients :
        (pc[t] = "srch_eval" /\ Malformed(loc[t].q) /\ docsTable) =>
            /\ ~SearchRaises(t)
            /\ SearchOutput(t) = VectorPhase(index[Fac(t)], docs, loc[t].q,
                                             loc[t].k, DISTANCE_THRESHOLD)

\* C24 witness: a search with k = 2 for a query that cannot be parsed finds
\* one document in the vector phase, so its lexical query is run, and
\* returns that document.
C24_Witness ==
    /\ pc["c1"] = "srch_eval" /\ loc["c1"].q = "qa" /\ loc["c1"].k = 2
    /\ docs = <<"a">> /\ index["f1"] = << <<1, "a">> >>
    /\ SearchOutput("c1") = <<"a">>

\* C25: once stop() has been called the flag stays down, the next test of
\* the loop condition ends run() (no task is fetched after the iteration in
\* progress), a run() that has ended stays ended, and run() does end.
C25_StopExits ==
    /\ [][\A w \in Workers :
             /\ ~running[w] => ~running'[w]
             /\ (~running[w] /\ pc[w] = "idle" /\ pc'[w] # pc[w]) =>
                   pc'[w] = "stopped"
             /\ pc[w] = "stopped" => pc'[w] = "stopped" /\ wk'[w] = wk[w]]_vars
    /\ \A w \in Workers : ~running[w] ~> pc[w] = "stopped"

\* C25 witness: run() has ended after stop(), having completed the task it
\* was processing and leaving the next one pending.
C25_Witness ==
    /\ ~running["w1"] /\ pc["w1"] = "stopped"
    /\ Len(tasks) = 2 /\ tasks[1].status = "done" /\ tasks[2].status = "pending"

\* C26: (for the one thread that calls the facade) add_batch with n >= 1
\* items appends n rows holding the items, with
\* the n ids that follow the last row, and changes no vector before it
\* holds the lock; its one write of the index file, made under the lock,
\* appends the n vectors of those rows under those ids; add_batch([])
\* returns with the documents and the index file as they were.
C26_BatchAddsAll ==
    [][\A t \in {"c1"} :
          /\ (pc[t] = "idle" /\ pc'[t] = "bat_enc") =>
                /\ loc'[t].cs # <<>>
                /\ docs' = docs \o loc'[t].cs
                /\ loc'[t].id = Len(docs) + 1
                /\ idxFile' = idxFile /\ clock' = clock
          /\ (pc[t] = "bat_enc" /\ pc'[t] = "bat_locked") =>
                docs' = docs /\ idxFile' = idxFile /\ clock' = clock
          /\ (pc[t] = "bat_locked" /\ pc'[t] # pc[t]) =>
                /\ HoldsLock(t) /\ pc'[t] = "idle" /\ res'[t] = Returned
                /\ docs' = docs
                /\ clock' = clock + 1
                /\ Len(idxFile') = Len(idxFile) + Len(loc[t].cs)
                /\ SubSeq(idxFile', 1, Len(idxFile)) = idxFile
                /\ \A i \in 1..Len(loc[t].cs) :
                      idxFile'[Len(idxFile) + i] =
                         <<loc[t].id + i - 1, docs[loc[t].id + i - 1]>>
          /\ (pc[t] = "idle" /\ pc'[t] = "idle" /\ nops' # nops) =>
                /\ res'[t] = Returned
                /\ docs' = docs /\ idxFile' = idxFile /\ clock' = clock
                /\ idxMtime' = idxMtime /\ index' = index]_vars

\* C26 witness: add_batch of two items on the empty store has returned:
\* two rows, their two vectors, and the index file written once.
C26_Witness ==
    /\ pc["c1"] = "idle" /\ res["c1"] = Returned /\ nops = 1
    /\ docs = <<"a", "b">> /\ idxFile = << <<1, "a">>, <<2, "b">> >>
    /\ clock = 2

\* C27: when a run of the agent graph has ended, its messages hold at most
\* one SystemMessage.
C27_OneSystemMessage ==
    graph.node = "END" => CountKind(graph.messages, "S") <= 1

\* C28: when the adds of two facades have all returned, the persisted index
\* holds, for every row whose add returned normally, exactly one vector
\* under its id, that of its content.
C28_BothAddsPersist ==
    (\A t \in Clients : pc[t] = "idle") =>
        \A id \in Rows \ orphan :
            /\ CountId(idxFile, id) = 1
            /\ <<id, docs[id]>> \in Range(idxFile)

\* C28 witness: the two facades added concurrently: the first inserted row 1,
\* the second inserted row 2 and wrote the index first, then the first
\* wrote; both calls have returned and both vectors are persisted.
C28_Witness ==
    /\ pc["c1"] = "idle" /\ pc["c2"] = "idle"
    /\ res["c1"] = Returned /\ res["c2"] = Returned
    /\ docs = <<"a", "b">> /\ idxFile = << <<2, "b">>, <<1, "a">> >>
    /\ lastMtime["f2"] = 2 /\ lastMtime["f1"] = 3

\* C29: a construction that finds a readable index file whose number of
\* vectors differs from the number of document rows ends with exactly one
\* vector for every row in the facade's index.
C29_MismatchRebuilt ==
    [][\A t \in Clients :
          (/\ pc[t] \in {"init_locked", "init_rebuild"} /\ pc'[t] = "idle"
           /\ res'[t] = Returned
           /\ idxExists /\ idxReadable /\ Len(idxFile) # Len(docs)) =>
             /\ VecIds(index'[Fac(t)]) = Rows
             /\ \A id \in Rows : CountId(index'[Fac(t)], id) = 1]_vars

\* Thread t is at a statement that calls the encoder: core.py 107 (add),
\* 143 (add_batch), 204 (update_document), 233 (search), 90 (rebuild), and
\* 161 (find_similar_vectors, entered from background.py 55 or
\* ace_framework.py 424).
AtEncoder(t) ==
    pc[t] \in {"add_enc", "bat_enc", "upd_enc", "srch_eval", "init_rebuild",
               "w_similar", "fw_similar"}

\* Worker t is at a statement that calls the oracle: background.py 84,
\* ace_framework.py 409 and 471.
AtOracle(t) == pc[t] \in {"w_oracle", "fw_oracle", "fw_synth"}

\* C30: no thread is at a call of the encoder or of the oracle while it
\* holds the index file lock.
C30_EncodeOutsideLock ==
    \A t \in Threads : (AtEncoder(t) \/ AtOracle(t)) => ~HoldsLock(t)

InOracleOrMutation(w) ==
    pc[w] \in {"w_oracle", "w_apply", "add_enc", "add_locked", "upd_enc",
               "upd_locked"}

\* C32: for a decision NEW or UPDATE the memory call of process_task
\* returns with the row it added or updated holding the decided content and
\* with that row's vector in the index file; the task is marked done only
\* by the step that follows that return; and the task has status
\* processing from the oracle call to the return of the memory call.
C32_DoneAfterMutation ==
    [][\A w \in Workers :
          /\ (/\ pc[w] \in {"add_locked", "upd_locked"} /\ pc'[w] = "w_done"
              /\ wk[w].dec \in {"NEW", "UPDATE"}) =>
                 /\ loc[w].id \in 1..Len(docs')
                 /\ docs'[loc[w].id] = loc[w].c
                 /\ <<loc[w].id, loc[w].c>> \in Range(idxFile')
          /\ (/\ HasTask(w) /\ wk[w].dec \in {"NEW", "UPDATE"}
              /\ tasks[wk[w].task].status # "done"
              /\ tasks'[wk[w].task].status = "done") =>
                 pc[w] = "w_done" /\ tasks[wk[w].task].muts = 1
          /\ (InOracleOrMutation(w) /\ HasTask(w)) =>
                 tasks[wk[w].task].status = "processing"]_vars

\* The tasks whose status is processing.
Processing == {i \in 1..Len(tasks) : tasks[i].status = "processing"}

\* C33: with one worker on the queue, a task is marked processing only
\* when every task marked before it has a smaller id, and no two tasks
\* have status processing at the same time.
C33_OneAtATimeInOrder ==
    [][/\ (pc["w1"] = "w_fetched" /\ pc'["w1"] # "w_fetched" /\ taskTable) =>
              \A j \in 1..Len(tasks) :
                  tasks[j].by # {} => j < wk["w1"].task
       /\ Cardinality(Processing') <= 1]_vars

\* C34: while the flag is up run() does not end, whatever exceptions
\* reached its loop, and every pending task is fetched and marked
\* processing by a later iteration.
C34_LoopSurvives ==
    /\ [](running["w1"] => pc["w1"] # "stopped")
    /\ \A i \in 1..MaxTasks : (i \in Pending) ~> (i \notin Pending)

\* C34 witness: the fetch has raised once and an exception of
\* find_similar_vectors has escaped process_task for task 1 (left in
\* processing); the loop is still running and has since processed task 2.
C34_Witness ==
    /\ running["w1"] /\ nops >= 1
    /\ Len(tasks) = 2 /\ tasks[1].status = "processing"
    /\ tasks[2].status = "done" /\ pc["w1"] = "w_loop"

\* The answer held by worker w falls into the else branch of background.py
\* 126-133: its action is neither KEPT nor UPDATE with a target.
NewByDefault(w) ==
    \/ wk[w].dec \in OtherActions
    \/ /\ wk[w].dec = "UPDATE" /\ wk[w].tid = 0
       /\ pc[w] \in {"w_apply", "add_enc", "add_locked"}

C36_ReflectOnce ==
    [][/\ Len(graph'.enq) > Len(graph.enq) =>
              graph.node = "reflector" /\ graph'.node = "END"
       /\ graph.node = "reflector" =>
              LET ms == graph.messages
              IN /\ graph.enq = <<>> /\ ms[Len(ms)] \in {"A", "E"}
                 /\ IF graph.queue /\ "H" \in Range(ms) /\ "A" \in Range(ms)
                    THEN /\ Len(graph'.enq) = 1
                         /\ ms[graph'.enq[1][1]] = "H" /\ ms[graph'.enq[1][2]] = "A"
                         /\ \A j \in 1..Len(ms) :
                               /\ ms[j] = "H" => j <= graph'.enq[1][1]
                               /\ ms[j] = "A" => j <= graph'.enq[1][2]
                         /\ tasks' = Append(tasks, NewTask)
                    ELSE graph'.enq = <<>> /\ tasks' = tasks]_vars

\* C36 witness: a run with a task queue on two human messages has ended
\* after one tool round and a final reply; enqueue_task was called once,
\* with the second human message and the final reply.
C36_Witness ==
    /\ graph.node = "END" /\ graph.queue
    /\ graph.messages = <<"H", "H", "C", "T", "A">>
    /\ graph.enq = << <<2, 5>> >> /\ Len(tasks) = 1

\* C37: for every session id at most one entry (memory, queue, agent and
\* started worker) has been constructed, and all calls that have returned
\* for it returned the same entry.
C37_OneEntryPerSession ==
    \A s \in SessionIds :
        sess.built[s] <= 1 /\ Cardinality(sess.rets[s]) <= 1

\* C38: the embedding model has been constructed at most once, and every
\* call of get_embedding_model that has returned returned that one
\* instance.
C38_OneModel ==
    /\ emb.built <= 1
    /\ emb.rets \subseteq {1}
    /\ emb.rets # {} => emb.built = 1

\* C38 witness: three threads found _model empty at the first test; one
\* has constructed the model and got it back, a second holds the lock and
\* is about to test again, the third waits for the lock.
C38_Witness ==
    /\ emb.built = 1 /\ emb.model = 1 /\ emb.rets = {1}
    /\ emb.at["c1"] = "idle" /\ emb.at["c2"] = "locked" /\ emb.at["w1"] = "lock"

\* C39: after a call of apply_diff the model passed to it is what it was
\* before the call, its three collections included.
C39_InputUntouched ==
    stm.called => stm.after = stm.model

\* The call in progress was given a model whose three fields are lists.
ListModel ==
    /\ stm.model.constraints.kind = "list" /\ stm.model.actions.kind = "list"
    /\ stm.model.entities.kind = "list"

Count(items, c) == Cardinality({i \in 1..Len(items) : items[i] = c})

\* The ops of a list that have a colon.
Splittable(ops) == SelectSeq(ops, LAMBDA op : Colon(op) # 0)

\* What the result of apply_diff on a model of lists has whatever the
\* lists held: nothing named by a DROP_ENTITY op among its entities, the
\* same value as without the ops that have no colon, and the same value
\* again when the ops are applied to it.
DiffCommon ==
    /\ \A i \in 1..Len(stm.ops) :
          (Parse(stm.ops[i]).ok /\ Parse(stm.ops[i]).kind = <<"DROP_ENTITY">>) =>
             Parse(stm.ops[i]).content \notin Range(stm.out.entities.items)
    /\ stm.out = ApplyDiff(stm.model, Splittable(stm.ops)).new
    /\ ApplyDiff(stm.out, stm.ops).new = stm.out

\* Field f of the result holds the content of every op of type ty exactly
\* once.
HeldOnce(ty, f) ==
    \A i \in 1..Len(stm.ops) :
        (Parse(stm.ops[i]).ok /\ Parse(stm.ops[i]).kind = <<ty>>) =>
           Count(stm.out[f].items, Parse(stm.ops[i]).content) = 1

\* Field f of the result holds the content of every op of type ty as many
\* times as the model passed in did, and once when it did not hold it.
HeldAsBefore(ty, f) ==
    \A i \in 1..Len(stm.ops) :
        (Parse(stm.ops[i]).ok /\ Parse(stm.ops[i]).kind = <<ty>>) =>
           LET c == Parse(stm.ops[i]).content
               n == Count(stm.model[f].items, c)
           IN Count(stm.out[f].items, c) = IF n = 0 THEN 1 ELSE n

\* C40 as stated: for a model of lists and any op list, the result holds
\* each ADD_CONSTRAINT content exactly once in constraints and each
\* MODIFY_ACTION content exactly once in actions, holds no entity named by
\* a DROP_ENTITY op, is what it would be without the ops that have no
\* colon, and is left as it is by a second application of the ops.
C40_DiffAsStated ==
    (stm.called /\ ListModel) =>
        /\ HeldOnce("ADD_CONSTRAINT", "constraints")
        /\ HeldOnce("MODIFY_ACTION", "actions")
        /\ DiffCommon

\* C40 amended: as stated, except that a content the model passed in
\* already held several times is held that many times by the result (a
\* content it held once or not at all is held exactly once).
C40_DiffAmended ==
    (stm.called /\ ListModel) =>
        /\ HeldAsBefore("ADD_CONSTRAINT", "constraints")
        /\ HeldAsBefore("MODIFY_ACTION", "actions")
        /\ DiffCommon

\* C40 witness: apply_diff has returned for a model that held constraint
\* x twice and for ops that add x in quotes and lower case and then name
\* an entity without a colon: the result holds x twice.
C40_Witness ==
    /\ stm.called /\ ListModel
    /\ stm.model.constraints.items = << <<"x">>, <<"x">> >>
    /\ stm.ops = << <<"add_constraint", ":", "dq", "x", "dq">>,
                    <<"DROP_ENTITY", " ", "x">> >>
    /\ stm.out.constraints.items = << <<"x">>, <<"x">> >>
====
